---- MODULE Spec2Model ----
(***************************************************************************)
(* Model of the invoice extraction pipeline of shared_code/excel.py:       *)
(* the JSON recovery of engine replies (Removingunwanted_from_Json,        *)
(* send_to_gpt), the merge engine (merge_or_add_invoice,                   *)
(* process_page_result), the oversized-page splitter (handle_large_page)   *)
(* and the page loop of process_invoice_with_gpt.                          *)
(*                                                                         *)
(* An engine reply is a sequence of lexical tokens.  Each token stands for *)
(* a run of characters of the reply:                                       *)
(*   L  '{'          R  '}'         LB '['        RB ']'      CM ','       *)
(*   K  a complete list of "key": scalar members without braces            *)
(*   M  the members of one invoice record (carried in .body)               *)
(*   C  a '"key":' prefix, to be followed by a value                       *)
(*   S  a truthy scalar (number, string)   Z  a falsy scalar (null, 0, "") *)
(*   X  prose that is no JSON               W  whitespace                  *)
(*   N  a non-printable character                                          *)
(*   F  the three-character code-fence marker (the slice [3:-3] of         *)
(*      excel.py:50 gives its length)       J  the language tag "json"     *)
(***************************************************************************)
EXTENDS Integers, Sequences, FiniteSets, TLC

\* ------------------------------------------------------------------ bounds
MaxTextLen == 5
MaxPages == 2
MaxTables == 1
MaxItems == 1
MaxElems == 2
MaxFrags == 3
MaxFiles == 2
MaxDocInvoices == 1
MaxAddrLen == 4
MaxItemCount == 23
MaxVaried == 1
MaxTail == 2
MaxPageTables == 2
MaxRows == 1
MaxSheetRows == 23
MaxColumns == 2
MaxRunPages == 2

\* --------------------------------------------------------------- tokens
NoBody == [num |-> "", hasItems |-> FALSE, items |-> << >>, total |-> 0, supplier |-> 0]

Tok(k) == [k |-> k, body |-> NoBody]

MTok(b) == [k |-> "M", body |-> b]

Kinds(s) == [i \in 1..Len(s) |-> s[i].k]

\* str.strip(): leading and trailing whitespace removed
RECURSIVE lstrip(_)
lstrip(s) == IF s # << >> /\ Head(s).k = "W" THEN lstrip(Tail(s)) ELSE s

RECURSIVE rstrip(_)
rstrip(s) ==
    IF s # << >> /\ s[Len(s)].k = "W" THEN rstrip(SubSeq(s, 1, Len(s) - 1)) ELSE s

strip(s) == rstrip(lstrip(s))

IsPrintableOrSpace(t) == t.k # "N"

remove_non_printable(text) == SelectSeq(text, IsPrintableOrSpace)

\* str.find / str.rfind of a one-token needle; 0 when absent
RECURSIVE FindFrom(_, _, _)
FindFrom(s, k, i) ==
    IF i > Len(s) THEN 0 ELSE IF s[i].k = k THEN i ELSE FindFrom(s, k, i + 1)

RECURSIVE RFindFrom(_, _, _)
RFindFrom(s, k, i) ==
    IF i < 1 THEN 0 ELSE IF s[i].k = k THEN i ELSE RFindFrom(s, k, i - 1)

\* first position of the fence marker immediately followed by the tag
RECURSIVE FindFenceTag(_, _)
FindFenceTag(s, i) ==
    IF i + 1 > Len(s) THEN 0
    ELSE IF s[i].k = "F" /\ s[i + 1].k = "J" THEN i ELSE FindFenceTag(s, i + 1)

\* ----------------------------------------------------------- json.loads
IsNotSpace(t) == t.k # "W"

RECURSIVE ValueEnd(_, _)
RECURSIVE ArrayEnd(_, _, _)
\* index just past the JSON value that starts at s[i]; 0 when there is none
ValueEnd(s, i) ==
    IF i > Len(s) THEN 0
    ELSE IF s[i].k \in {"S", "Z"} THEN i + 1
    ELSE IF s[i].k = "L" THEN
        IF i + 1 <= Len(s) /\ s[i + 1].k = "R" THEN i + 2
        ELSE IF i + 2 <= Len(s) /\ s[i + 1].k \in {"K", "M"} /\ s[i + 2].k = "R"
            THEN i + 3
        ELSE IF i + 1 <= Len(s) /\ s[i + 1].k = "C" THEN
            LET e == ValueEnd(s, i + 2)
            IN  IF e # 0 /\ e <= Len(s) /\ s[e].k = "R" THEN e + 1 ELSE 0
        ELSE 0
    ELSE IF s[i].k = "LB" THEN ArrayEnd(s, i + 1, TRUE)
    ELSE 0

\* i is just past '[' (first) or past ','; index just past the closing ']'
ArrayEnd(s, i, first) ==
    IF i > Len(s) THEN 0
    ELSE IF first /\ s[i].k = "RB" THEN i + 1
    ELSE LET e == ValueEnd(s, i)
         IN  IF e = 0 \/ e > Len(s) THEN 0
             ELSE IF s[e].k = "CM" THEN ArrayEnd(s, e + 1, FALSE)
             ELSE IF s[e].k = "RB" THEN e + 1
             ELSE 0

\* the element texts of the array whose '[' is at s[1]
RECURSIVE ArrayElems(_, _)
ArrayElems(s, i) ==
    IF s[i].k = "RB" THEN << >>
    ELSE LET e == ValueEnd(s, i)
         IN  <<SubSeq(s, i, e - 1)>>
                 \o (IF s[e].k = "CM" THEN ArrayElems(s, e + 1) ELSE << >>)

JsonErr == [err |-> TRUE, isList |-> FALSE, elems |-> << >>]

\* json.loads: a parsed value is kept as its element texts without
\* whitespace; err stands for json.JSONDecodeError
JsonLoads(text) ==
    LET s == SelectSeq(text, IsNotSpace)
    IN  IF s = << >> \/ ValueEnd(s, 1) # Len(s) + 1 THEN JsonErr
        ELSE IF s[1].k = "LB"
            THEN [err |-> FALSE, isList |-> TRUE, elems |-> ArrayElems(s, 2)]
        ELSE [err |-> FALSE, isList |-> FALSE, elems |-> <<s>>]

\* what a function of the adapter hands back: None, or a parsed value
NoneResult == [none |-> TRUE, isList |-> FALSE, elems |-> << >>]

Parsed(j) == [none |-> FALSE, isList |-> j.isList, elems |-> j.elems]

\* ------------------------------------------- Removingunwanted_from_Json
\* the inner while: position just past the '}' that balances the '{' before
\* pos, with the brace count left when the text ends
RECURSIVE BraceWalk(_, _, _)
BraceWalk(text, pos, brace_count) ==
    IF brace_count > 0 /\ pos <= Len(text) THEN
        BraceWalk(text, pos + 1,
                  IF text[pos].k = "L" THEN brace_count + 1
                  ELSE IF text[pos].k = "R" THEN brace_count - 1
                  ELSE brace_count)
    ELSE [pos |-> pos, brace_count |-> brace_count]

\* variant: a candidate that fails to parse ends the scan
RECURSIVE BraceScan_stop_on_error(_, _, _)
BraceScan_stop_on_error(text, from, json_objects) ==
    LET start == FindFrom(text, "L", from)
    IN  IF start = 0 THEN json_objects
        ELSE LET w == BraceWalk(text, start + 1, 1)
             IN  IF w.brace_count = 0 THEN
                     LET j == JsonLoads(SubSeq(text, start, w.pos - 1))
                     IN  IF j.err THEN json_objects
                         ELSE BraceScan_stop_on_error(text, w.pos,
                                                      json_objects \o j.elems)
                 ELSE json_objects

\* the outer while True of the brace scan
RECURSIVE BraceScan(_, _, _)
BraceScan(text, from, json_objects) ==
    LET start == FindFrom(text, "L", from)
    IN  IF start = 0 THEN json_objects
        ELSE LET w == BraceWalk(text, start + 1, 1)
             IN  IF w.brace_count = 0 THEN
                     LET j == JsonLoads(SubSeq(text, start, w.pos - 1))
                     IN  BraceScan(text, w.pos,
                                   IF j.err THEN json_objects
                                   ELSE json_objects \o j.elems)
                 ELSE json_objects

StripFenceAndTag(Jsonfile) ==
    LET t0 == strip(Jsonfile)
        t1 == IF t0 # << >> /\ t0[1].k = "F" /\ t0[Len(t0)].k = "F"
              THEN strip(SubSeq(t0, 2, Len(t0) - 1)) ELSE t0
    IN  IF t1 # << >> /\ t1[1].k = "J" THEN strip(Tail(t1)) ELSE t1

Removingunwanted_from_Json(Jsonfile) ==
    LET text == StripFenceAndTag(Jsonfile)
        j == JsonLoads(text)
    IN  IF ~j.err THEN Parsed(j)
        ELSE LET json_objects == BraceScan(text, 1, << >>)
             IN  IF json_objects # << >>
                 THEN [none |-> FALSE, isList |-> TRUE, elems |-> json_objects]
                 ELSE NoneResult

\* ------------------------------------------------------------ send_to_gpt
\* content.split(F J)[1].split(F)[0]: from just past the first fence+tag to
\* the next fence
AfterFenceTag(content) ==
    LET a == FindFenceTag(content, 1)
        rest == SubSeq(content, a + 2, Len(content))
        b == FindFrom(rest, "F", 1)
    IN  IF b = 0 THEN rest ELSE SubSeq(rest, 1, b - 1)

\* content.split(F)[1].split(F)[0]: between the first fence and the next
AfterFence(content) ==
    LET a == FindFrom(content, "F", 1)
        rest == SubSeq(content, a + 1, Len(content))
        b == FindFrom(rest, "F", 1)
    IN  IF b = 0 THEN rest ELSE SubSeq(rest, 1, b - 1)

ExtractFenced(content) ==
    IF FindFenceTag(content, 1) # 0 THEN strip(AfterFenceTag(content))
    ELSE IF FindFrom(content, "F", 1) # 0 THEN strip(AfterFence(content))
    ELSE content

\* content[content.find('{'):content.rfind('}')+1]
FirstToLastBrace(content) ==
    LET a == FindFrom(content, "L", 1)
        b == RFindFrom(content, "R", Len(content))
    IN  IF a = 0 THEN \* find gives -1: the slice starts at the last character
            (IF b # 0 /\ b = Len(content) THEN <<content[b]>> ELSE << >>)
        ELSE IF b < a THEN << >>
        ELSE SubSeq(content, a, b)

\* variant: when every attempt fails the raw content is handed back
ParseReply_keep_raw(raw) ==
    LET content == ExtractFenced(remove_non_printable(raw))
        j2 == JsonLoads(content)
    IN  IF ~j2.err THEN Parsed(j2)
        ELSE LET j3 == JsonLoads(FirstToLastBrace(content))
             IN  IF ~j3.err THEN Parsed(j3)
                 ELSE [none |-> FALSE, isList |-> FALSE, elems |-> <<<<Tok("S")>>>>]

\* the reply handling of send_to_gpt, from the content of the response on
ParseReply(raw) ==
    LET content == ExtractFenced(remove_non_printable(raw))
        j2 == JsonLoads(content)
    IN  IF ~j2.err THEN Parsed(j2)
        ELSE LET j3 == JsonLoads(FirstToLastBrace(content))
             IN  IF ~j3.err THEN Parsed(j3) ELSE NoneResult

\* none of the three documented strategies recovers anything from the reply
Unparsable(raw) ==
    LET content == ExtractFenced(remove_non_printable(raw))
    IN  /\ JsonLoads(content).err
        /\ BraceScan(content, 1, << >>) = << >>
        /\ JsonLoads(FirstToLastBrace(content)).err

\* api = "error": the engine call raised, caught by the outer except
send_to_gpt(reply) ==
    IF reply.api = "error" THEN NoneResult ELSE ParseReply(reply.text)

\* ------------------------------------------------ parsed records, the heap
\* A parsed element as the merge engine sees it: kind "dict" (a non-empty
\* JSON object), "other" (a truthy value without .get: string, number,
\* non-empty list) or "falsy" (None, {}, [], 0, "").  num = "" stands for a
\* missing 'Invoice Number', hasItems for a present 'List of Items', total = 0
\* for a missing or zero 'Total'.  supplier stands for the other header
\* fields (supplier, addresses, dates) as the fragment gives them.
Obj(kind, b) ==
    [kind |-> kind, num |-> b.num, hasItems |-> b.hasItems,
     items |-> b.items, total |-> b.total, supplier |-> b.supplier]

ElemOf(e) ==
    IF e[1].k = "L" THEN
        IF Len(e) = 2 THEN Obj("falsy", NoBody)
        ELSE IF e[2].k = "M" THEN Obj("dict", e[2].body)
        ELSE Obj("dict", NoBody)
    ELSE IF e[1].k = "Z" THEN Obj("falsy", NoBody)
    ELSE IF e[1].k = "LB" /\ Len(e) = 2 THEN Obj("falsy", NoBody)
    ELSE Obj("other", NoBody)

\* bool(page_result)
Truthy(r) ==
    /\ ~r.none
    /\ IF r.isList THEN r.elems # << >> ELSE ElemOf(r.elems[1]).kind # "falsy"

\* ---------------------------------------------------- merge_or_add_invoice
\* current_invoice is a reference into heap (0 is None); all_invoices is a
\* list of references.  raised stands for the AttributeError / KeyError of
\* .get on a non-dict and of ['List of Items'] on a dict without that key.
MergeOut(raised, cur, hp, al) ==
    [raised |-> raised, current_invoice |-> cur, heap |-> hp, all_invoices |-> al]

\* variant: items whose name the open invoice already holds are not appended
RECURSIVE NewNames(_, _)
NewNames(items, have) ==
    IF items = << >> THEN << >>
    ELSE IF \E i \in 1..Len(have) : have[i].name = Head(items).name
        THEN NewNames(Tail(items), have)
    ELSE <<Head(items)>> \o NewNames(Tail(items), Append(have, Head(items)))

merge_or_add_invoice_dedup(new_invoice, cur, hp, al) ==
    IF new_invoice.kind = "falsy" THEN MergeOut(FALSE, cur, hp, al)
    ELSE IF cur # 0 THEN
        IF new_invoice.kind # "dict" \/ hp[cur].kind # "dict"
            THEN MergeOut(TRUE, cur, hp, al)
        ELSE IF new_invoice.num = hp[cur].num THEN
            IF ~hp[cur].hasItems THEN MergeOut(TRUE, cur, hp, al)
            ELSE MergeOut(FALSE, cur,
                     [hp EXCEPT ![cur].items = @ \o NewNames(new_invoice.items, @),
                                ![cur].total = IF new_invoice.total # 0
                                               THEN new_invoice.total ELSE @],
                     al)
        ELSE MergeOut(FALSE, Len(hp) + 1, Append(hp, new_invoice), Append(al, cur))
    ELSE MergeOut(FALSE, Len(hp) + 1, Append(hp, new_invoice), al)

\* variant: without the early return for an empty fragment
merge_or_add_invoice_no_guard(new_invoice, cur, hp, al) ==
    IF cur # 0 THEN
        IF new_invoice.kind = "other" \/ hp[cur].kind # "dict"
            THEN MergeOut(TRUE, cur, hp, al)
        ELSE IF new_invoice.num = hp[cur].num THEN
            IF ~hp[cur].hasItems THEN MergeOut(TRUE, cur, hp, al)
            ELSE MergeOut(FALSE, cur,
                     [hp EXCEPT ![cur].items = @ \o new_invoice.items,
                                ![cur].total = IF new_invoice.total # 0
                                               THEN new_invoice.total ELSE @],
                     al)
        ELSE MergeOut(FALSE, Len(hp) + 1, Append(hp, new_invoice), Append(al, cur))
    ELSE MergeOut(FALSE, Len(hp) + 1, Append(hp, new_invoice), al)

\* variant: the fragment's Total always replaces the open invoice's
merge_or_add_invoice_overwrite(new_invoice, cur, hp, al) ==
    IF new_invoice.kind = "falsy" THEN MergeOut(FALSE, cur, hp, al)
    ELSE IF cur # 0 THEN
        IF new_invoice.kind # "dict" \/ hp[cur].kind # "dict"
            THEN MergeOut(TRUE, cur, hp, al)
        ELSE IF new_invoice.num = hp[cur].num THEN
            IF ~hp[cur].hasItems THEN MergeOut(TRUE, cur, hp, al)
            ELSE MergeOut(FALSE, cur,
                     [hp EXCEPT ![cur].items = @ \o new_invoice.items,
                                ![cur].total = new_invoice.total],
                     al)
        ELSE MergeOut(FALSE, Len(hp) + 1, Append(hp, new_invoice), Append(al, cur))
    ELSE MergeOut(FALSE, Len(hp) + 1, Append(hp, new_invoice), al)

merge_or_add_invoice(new_invoice, cur, hp, al) ==
    IF new_invoice.kind = "falsy" THEN MergeOut(FALSE, cur, hp, al)
    ELSE IF cur # 0 THEN
        IF new_invoice.kind # "dict" \/ hp[cur].kind # "dict"
            THEN MergeOut(TRUE, cur, hp, al)
        ELSE IF new_invoice.num = hp[cur].num THEN
            IF ~hp[cur].hasItems THEN MergeOut(TRUE, cur, hp, al)
            ELSE MergeOut(FALSE, cur,
                     [hp EXCEPT ![cur].items = @ \o new_invoice.items,
                                ![cur].total = IF new_invoice.total # 0
                                               THEN new_invoice.total ELSE @],
                     al)
        ELSE MergeOut(FALSE, Len(hp) + 1, Append(hp, new_invoice), Append(al, cur))
    ELSE MergeOut(FALSE, Len(hp) + 1, Append(hp, new_invoice), al)

\* ------------------------------------------------------------ the inputs
InvoiceNumbers == {"A", "B"}

\* 'Total' of a fragment: missing or zero, or a declared amount
Totals == {0, 7}

LargePageThreshold == 16000

\* len(page_text) at and just above the threshold
PageLens == {LargePageThreshold, LargePageThreshold + 1}

\* a page holds MaxTables tables
PageKinds == [len : PageLens, tables : {MaxTables}]

\* the shapes of the elements of an engine reply; n is the number of items.
\* A well-formed record has an Invoice Number, MaxItems items and no Total;
\* a record of invoice "A" may deviate from that in one respect.
Defects(sh) ==
    (IF sh.num = "" THEN 1 ELSE 0) + (IF ~sh.hasItems THEN 1 ELSE 0)
        + (IF sh.hasItems /\ sh.n < MaxItems THEN 1 ELSE 0)
        + (IF sh.total # 0 THEN 1 ELSE 0)

DictShapes ==
    {sh \in [kind : {"dict"}, num : InvoiceNumbers \cup {""}, hasItems : BOOLEAN,
             n : 0..MaxItems, total : Totals] :
        /\ ~sh.hasItems => sh.n = 0
        /\ Defects(sh) <= 1
        /\ sh.num = "B" => Defects(sh) = 0}

OtherShape == [kind |-> "other", num |-> "", hasItems |-> FALSE, n |-> 0, total |-> 0]

FalsyShape == [kind |-> "falsy", num |-> "", hasItems |-> FALSE, n |-> 0, total |-> 0]

Shapes == DictShapes \cup {OtherShape, FalsyShape}

ItemName(id) == IF id % 2 = 1 THEN "x" ELSE "y"

\* items base+1 .. base+n; items with the same name are duplicates
NewItems(base, n) == [i \in 1..n |-> [id |-> base + i, name |-> ItemName(base + i)]]

\* the text of one element
RenderElem(sh, base) ==
    IF sh.kind = "falsy" THEN <<Tok("L"), Tok("R")>>
    ELSE IF sh.kind = "other" THEN <<Tok("S")>>
    ELSE <<Tok("L"),
           MTok([num |-> sh.num, hasItems |-> sh.hasItems,
                 items |-> NewItems(base, sh.n), total |-> sh.total,
                 supplier |-> base + 1]),
           Tok("R")>>

RECURSIVE RenderElems(_, _)
RenderElems(shs, base) ==
    IF shs = << >> THEN << >>
    ELSE RenderElem(Head(shs), base)
             \o (IF Len(shs) > 1 THEN <<Tok("CM")>> ELSE << >>)
             \o RenderElems(Tail(shs), base + Head(shs).n)

RECURSIVE SumItems(_)
SumItems(shs) == IF shs = << >> THEN 0 ELSE Head(shs).n + SumItems(Tail(shs))

\* a JSON array of the elements, or the single element itself
Render(shs, asList, base) ==
    IF asList THEN <<Tok("LB")>> \o RenderElems(shs, base) \o <<Tok("RB")>>
    ELSE RenderElems(shs, base)

\* how the engine delivers the payload: as it is, inside a code fence with a
\* language tag, between prose, after a control character, or cut short
Wraps == {"plain", "fenced", "prose", "control", "truncated"}

Wrap(w, t) ==
    CASE w = "plain" -> t
      [] w = "fenced" -> <<Tok("F"), Tok("J"), Tok("W")>> \o t \o <<Tok("W"), Tok("F")>>
      [] w = "prose" -> <<Tok("X")>> \o t \o <<Tok("X")>>
      [] w = "control" -> <<Tok("N")>> \o t
      [] w = "truncated" -> SubSeq(t, 1, Len(t) - 1)

Payloads(k) ==
    {p \in [shs : UNION {[1..n -> Shapes] : n \in 0..k}, asList : BOOLEAN] :
        ~p.asList => Len(p.shs) = 1}

\* a reply of the engine: the call raises, or a text comes back
ErrorReply == [api |-> "error", text |-> << >>]

TextReply(w, p, base) == [api |-> "ok", text |-> Wrap(w, Render(p.shs, p.asList, base))]

\* texts of the recovery functions: every token sequence up to MaxTextLen
ParseKinds == {"L", "R", "K", "X", "F", "J"}

Texts == UNION {[1..n -> {Tok(k) : k \in ParseKinds}] : n \in 0..MaxTextLen}

\* --------------------------------------------------------------- state
VARIABLES
    pages_content,    \* page number -> [len, tables] of the formatted page
    pc,               \* position in process_invoice_with_gpt
    page_idx,         \* index into sorted(pages_content.keys())
    seg,              \* segment of handle_large_page (0: not in it)
    heap,             \* the invoice objects, by reference
    all_invoices,     \* list of references
    current_invoice,  \* reference held by process_invoice_with_gpt (0: None)
    local_invoice,    \* current_invoice of the callee in progress
    unparsable,       \* history: no strategy could parse the last reply
    page_result,      \* what send_to_gpt returned for it
    elem_idx,         \* next element of page_result to fold
    returned,         \* the list process_invoice_with_gpt returns
    next_item,        \* history: item ids handed out
    nfrags,           \* history: reply elements drawn so far
    folded,           \* history: non-empty elements folded without error
    parsed_items,     \* history: items of successfully parsed replies
    calls,            \* history: page of every engine call, in order
    paced,            \* history: time.sleep ran since the last engine call
    unpaced,          \* history: some engine call followed one without sleep
    raised,           \* history: some fold raised
    snap,             \* history: merge state when the current page began
    text,             \* input of the recovery functions
    parse_pc,         \* "input", "cleaned" or "sent"
    parse_out,        \* result of the recovery function applied
    files,            \* the blobs of one orchestration, in input order
    task,             \* outcome of process_file_activity per blob
    orch_pc,          \* position in process_invoice_orchestrator
    aggregated,       \* all_invoices of the orchestrator
    stored,           \* the invoices handed to store_invoices_activity
    notified,         \* send_email_activity has returned
    outage,           \* history: the collaborator that failed, if any
    orch_result,      \* what the orchestrator returned
    shipping_addr,    \* data.get('Shipping Address', '')
    sold_to_addr,     \* data.get('Sold to Address', '')
    loc_pc,           \* "input", "extracted" or "resolved"
    location,         \* result of the location function applied
    data,             \* the raw invoice dict given to Invoice.from_dict
    model_pc,         \* "input", "built", "failed" or "dumped"
    invoice,          \* the Invoice object built from data
    dumped,           \* the dict Invoice.to_dict returned
    store,            \* store_invoices_activity: input, locals, submitted batches, result
    large_page,       \* handle_large_page: the page, its parts, the segments sent
    excel,            \* process_excel_file: the sheet, the loop counter, the pages
    runs              \* two runs of the page loop: each run's locals and pages

docvars ==
    <<pages_content, pc, page_idx, seg, heap, all_invoices, current_invoice,
      local_invoice, unparsable, page_result, elem_idx, returned, next_item, nfrags,
      folded, parsed_items, calls, paced, unpaced, raised, snap>>

parsevars == <<text, parse_pc, parse_out>>

filevars == <<files, task, orch_pc, aggregated, stored, notified, outage, orch_result>>

locvars == <<shipping_addr, sold_to_addr, loc_pc, location>>

modelvars == <<data, model_pc, invoice, dumped>>

restvars == <<filevars, locvars, modelvars, store, large_page, excel, runs>>

nonfilevars == <<docvars, parsevars, locvars, modelvars, store, large_page, excel, runs>>

nonlocvars == <<docvars, parsevars, filevars, modelvars, store, large_page, excel, runs>>

nonmodelvars == <<docvars, parsevars, filevars, locvars, store, large_page, excel, runs>>

nonstorevars == <<docvars, parsevars, filevars, locvars, modelvars, large_page, excel, runs>>

nonsplitvars == <<docvars, parsevars, filevars, locvars, modelvars, store, excel, runs>>

vars == <<docvars, parsevars, restvars>>

\* variant: the keys in decreasing order
RECURSIVE sorted_reverse(_)
sorted_reverse(S) ==
    IF S = {} THEN << >>
    ELSE LET m == CHOOSE x \in S : \A y \in S : x >= y
         IN  <<m>> \o sorted_reverse(S \ {m})

\* sorted(pages_content.keys())
RECURSIVE sorted(_)
sorted(S) ==
    IF S = {} THEN << >>
    ELSE LET m == CHOOSE x \in S : \A y \in S : x <= y
         IN  <<m>> \o sorted(S \ {m})

Pages == sorted(DOMAIN pages_content)

page_num == Pages[page_idx]

Snapshot == [current_invoice |-> current_invoice, all_invoices |-> all_invoices, heap |-> heap]

\* segments handle_large_page sends: the text before the first table, then
\* one per table-start marker
NumSegments == pages_content[page_num].tables + 1

InitMerge ==
    /\ pc = "begin"
    /\ page_idx = 0
    /\ seg = 0
    /\ heap = << >>
    /\ all_invoices = << >>
    /\ current_invoice = 0
    /\ local_invoice = 0
    /\ unparsable = FALSE
    /\ page_result = NoneResult
    /\ elem_idx = 0
    /\ returned = << >>
    /\ next_item = 0
    /\ nfrags = 0
    /\ folded = << >>
    /\ parsed_items = << >>
    /\ calls = << >>
    /\ paced = FALSE
    /\ unpaced = FALSE
    /\ raised = FALSE
    /\ snap = [current_invoice |-> 0, all_invoices |-> << >>, heap |-> << >>]

InitParseIdle ==
    /\ text = << >>
    /\ parse_pc = "idle"
    /\ parse_out = NoneResult

NoOrchResult == [status |-> "", invoice_count |-> 0]

InitFilesIdle ==
    /\ files = << >>
    /\ task = << >>
    /\ orch_pc = "idle"
    /\ aggregated = << >>
    /\ stored = << >>
    /\ notified = FALSE
    /\ outage = "none"
    /\ orch_result = NoOrchResult

InitLocationIdle ==
    /\ shipping_addr = [isStr |-> TRUE, toks |-> << >>]
    /\ sold_to_addr = [isStr |-> TRUE, toks |-> << >>]
    /\ loc_pc = "idle"
    /\ location = << >>

InitModelsIdle ==
    /\ data = << >>
    /\ model_pc = "idle"
    /\ invoice = << >>
    /\ dumped = << >>
    /\ store = << >>
    /\ large_page = << >>
    /\ excel = << >>
    /\ runs = << >>

InitRestIdle == InitFilesIdle /\ InitLocationIdle /\ InitModelsIdle

Init ==
    /\ pages_content \in UNION {[1..n -> PageKinds] : n \in 0..MaxPages}
    /\ InitMerge
    /\ InitParseIdle
    /\ InitRestIdle

\* ----------------------------------------------- process_invoice_with_gpt
RECURSIVE ItemsOfElems(_)
ItemsOfElems(es) ==
    IF es = << >> THEN << >>
    ELSE (IF ElemOf(Head(es)).kind = "dict" THEN ElemOf(Head(es)).items ELSE << >>)
             \o ItemsOfElems(Tail(es))

\* lines 737-742: no content gives [] at once, else the merge state is set up
Begin ==
    /\ pc = "begin"
    /\ IF DOMAIN pages_content = {}
       THEN pc' = "done"
       ELSE pc' = "loop"
    /\ UNCHANGED <<pages_content, page_idx, seg, heap, all_invoices,
                   current_invoice, local_invoice, unparsable, page_result, elem_idx,
                   returned, next_item, nfrags, folded, parsed_items, calls,
                   paced, unpaced, raised, snap, parsevars, restvars>>

\* line 745-751: the next page in sorted order, sent whole or to
\* handle_large_page by the length of its formatted text
NextPage ==
    /\ pc = "loop"
    /\ IF page_idx = Len(Pages)
       THEN /\ pc' = "flush"
            /\ UNCHANGED <<page_idx, seg, local_invoice, snap>>
       ELSE /\ page_idx' = page_idx + 1
            /\ snap' = Snapshot
            /\ IF pages_content[Pages[page_idx + 1]].len > LargePageThreshold
               THEN /\ pc' = "seg_call"
                    /\ seg' = 1
                    /\ local_invoice' = current_invoice
               ELSE /\ pc' = "call"
                    /\ UNCHANGED <<seg, local_invoice>>
    /\ UNCHANGED <<pages_content, heap, all_invoices, current_invoice, unparsable,
                   page_result, elem_idx, returned, next_item, nfrags, folded,
                   parsed_items, calls, paced, unpaced, raised, parsevars, restvars>>

\* one call of send_to_gpt with the reply r, and the history it leaves
EngineCall(r, nelems, nitems) ==
    /\ unparsable' = (r.api = "ok" /\ Unparsable(r.text))
    /\ page_result' = send_to_gpt(r)
    /\ calls' = Append(calls, page_num)
    /\ unpaced' = (unpaced \/ (calls # << >> /\ ~paced))
    /\ paced' = FALSE
    /\ nfrags' = nfrags + nelems
    /\ next_item' = next_item + nitems
    /\ parsed_items' =
           IF send_to_gpt(r).none THEN parsed_items
           ELSE parsed_items \o ItemsOfElems(send_to_gpt(r).elems)

SomeEngineCall ==
    \/ EngineCall(ErrorReply, 0, 0)
    \/ \E w \in Wraps, p \in Payloads(MaxElems) :
          /\ nfrags + Len(p.shs) <= MaxFrags
          /\ EngineCall(TextReply(w, p, next_item), Len(p.shs), SumItems(p.shs))

\* lines 754-756: a page sent whole
Call ==
    /\ pc = "call"
    /\ SomeEngineCall
    /\ IF Truthy(page_result')
       THEN /\ pc' = "fold"
            /\ local_invoice' = current_invoice
            /\ elem_idx' = 1
       ELSE /\ pc' = "sleep"
            /\ UNCHANGED <<local_invoice, elem_idx>>
    /\ UNCHANGED <<pages_content, page_idx, seg, heap, all_invoices,
                   current_invoice, returned, folded, raised, snap, parsevars, restvars>>

\* handle_large_page, after the segment seg: the next segment, or the return
\* of the local current_invoice to the caller
AfterSegment(cur) ==
    IF seg < NumSegments
    THEN /\ seg' = seg + 1
         /\ pc' = "seg_call"
         /\ local_invoice' = cur
         /\ UNCHANGED current_invoice
    ELSE /\ pc' = "sleep"
         /\ seg' = 0
         /\ local_invoice' = cur
         /\ current_invoice' = cur

\* handle_large_page lines 578-580 and 587-589: one segment sent
SegCall ==
    /\ pc = "seg_call"
    /\ SomeEngineCall
    /\ IF Truthy(page_result')
       THEN /\ pc' = "fold"
            /\ elem_idx' = 1
            /\ UNCHANGED <<seg, local_invoice, current_invoice>>
       ELSE /\ AfterSegment(local_invoice)
            /\ UNCHANGED elem_idx
    /\ UNCHANGED <<pages_content, page_idx, heap, all_invoices, returned,
                   folded, raised, snap, parsevars, restvars>>

\* process_page_result: one merge_or_add_invoice, for the next element of a
\* list or for the result itself; an exception leaves for the except clause
\* of the page with the caller's current_invoice as it was
Fold ==
    /\ pc = "fold"
    /\ LET e == ElemOf(page_result.elems[elem_idx])
           out == merge_or_add_invoice(e, local_invoice, heap, all_invoices)
       IN  IF out.raised
           THEN /\ pc' = "except"
                /\ raised' = TRUE
                /\ UNCHANGED <<seg, heap, all_invoices, current_invoice,
                               local_invoice, elem_idx, folded>>
           ELSE /\ heap' = out.heap
                /\ all_invoices' = out.all_invoices
                /\ folded' = IF e.kind = "falsy" THEN folded ELSE Append(folded, e)
                /\ UNCHANGED raised
                /\ IF elem_idx < Len(page_result.elems)
                   THEN /\ elem_idx' = elem_idx + 1
                        /\ local_invoice' = out.current_invoice
                        /\ UNCHANGED <<pc, seg, current_invoice>>
                   ELSE /\ UNCHANGED elem_idx
                        /\ IF seg = 0
                           THEN /\ pc' = "sleep"
                                /\ local_invoice' = out.current_invoice
                                /\ current_invoice' = out.current_invoice
                                /\ UNCHANGED seg
                           ELSE AfterSegment(out.current_invoice)
    /\ UNCHANGED <<pages_content, page_idx, unparsable, page_result, returned,
                   next_item, nfrags, parsed_items, calls, paced, unpaced, snap,
                   parsevars, restvars>>

\* line 758: time.sleep(1)
Sleep ==
    /\ pc = "sleep"
    /\ pc' = "loop"
    /\ paced' = TRUE
    /\ UNCHANGED <<pages_content, page_idx, seg, heap, all_invoices,
                   current_invoice, local_invoice, unparsable, page_result, elem_idx,
                   returned, next_item, nfrags, folded, parsed_items, calls,
                   unpaced, raised, snap, parsevars, restvars>>

\* lines 760-762: the error is logged and the loop continues
Except ==
    /\ pc = "except"
    /\ pc' = "loop"
    /\ seg' = 0
    /\ UNCHANGED <<pages_content, page_idx, heap, all_invoices,
                   current_invoice, local_invoice, unparsable, page_result, elem_idx,
                   returned, next_item, nfrags, folded, parsed_items, calls,
                   paced, unpaced, raised, snap, parsevars, restvars>>

\* lines 764-767: the open invoice is appended and the list returned
Flush ==
    /\ pc = "flush"
    /\ pc' = "done"
    /\ all_invoices' = IF current_invoice # 0
                       THEN Append(all_invoices, current_invoice)
                       ELSE all_invoices
    /\ returned' = [i \in 1..Len(all_invoices') |-> heap[all_invoices'[i]]]
    /\ UNCHANGED <<pages_content, page_idx, seg, heap, current_invoice,
                   local_invoice, unparsable, page_result, elem_idx, next_item,
                   nfrags, folded, parsed_items, calls, paced, unpaced, raised,
                   snap, parsevars, restvars>>

Next ==
    \/ Begin
    \/ NextPage
    \/ Call
    \/ SegCall
    \/ Fold
    \/ Sleep
    \/ Except
    \/ Flush

Spec == Init /\ [][Next]_vars

\* -------------------------------------------- the recovery functions alone
InitParse ==
    /\ pages_content = << >>
    /\ InitMerge
    /\ text \in Texts
    /\ parse_pc = "input"
    /\ parse_out = NoneResult
    /\ InitRestIdle

RunRemovingunwanted ==
    /\ parse_pc = "input"
    /\ parse_pc' = "cleaned"
    /\ parse_out' = Removingunwanted_from_Json(text)
    /\ UNCHANGED <<text, docvars, restvars>>

RunSendToGpt ==
    /\ parse_pc = "input"
    /\ parse_pc' = "sent"
    /\ parse_out' = send_to_gpt([api |-> "ok", text |-> text])
    /\ UNCHANGED <<text, docvars, restvars>>

NextParse ==
    \/ RunRemovingunwanted
    \/ RunSendToGpt

SpecParse == InitParse /\ [][NextParse]_vars

\* ------------------------------------------------- function_app.py: files
\* A blob: the extension of its name, whether its download succeeds, whether
\* the document can be opened and analysed, and the number of invoices the
\* page loop of process_invoice_with_gpt returns for it.
Extensions == {".png", ".pdf", ".xlsx", ".txt", ".zzz"}

\* mimetypes.guess_type(blob_name)[0], by its leading part; "none" is None
guess_type(ext) ==
    CASE ext = ".png" -> "image/"
      [] ext = ".pdf" -> "application/pdf"
      [] ext = ".xlsx" -> "application/vnd.openxmlformats-officedocument.spreadsheetml.sheet"
      [] ext = ".txt" -> "text/plain"
      [] OTHER -> "none"

FileKinds ==
    {f \in [ext : Extensions, download : BOOLEAN, readable : BOOLEAN,
            n : 0..MaxDocInvoices] :
        /\ ~f.download => ~f.readable
        /\ guess_type(f.ext) \in {"text/plain", "none"} => ~f.readable
        /\ ~f.readable => f.n = 0}

\* the invoices of the i-th blob
DocInvoices(f, i) == [k \in 1..f.n |-> [file |-> i, k |-> k]]

Returns(v) == [raised |-> FALSE, value |-> v]

Raises == [raised |-> TRUE, value |-> << >>]

\* excel.py 724-771: any exception of the reader or the analyser is logged
\* and [] returned; else the list of the page loop
process_invoice_with_gpt(f, i) ==
    IF ~f.readable THEN Returns(<< >>) ELSE Returns(DocInvoices(f, i))

\* function_app.py 189-253
process_file_activity(f, i) ==
    IF ~f.download THEN Raises
    ELSE LET mime_type == guess_type(f.ext)
             results == process_invoice_with_gpt(f, i)
         IN  IF mime_type = "none" THEN Returns(<< >>)
             ELSE IF mime_type = "image/" \/ mime_type = "application/pdf" THEN
                 IF results.raised THEN Raises
                 ELSE IF results.value = << >> THEN Returns(<< >>)
                 ELSE Returns(results.value)
             ELSE IF mime_type = "application/vnd.openxmlformats-officedocument.spreadsheetml.sheet"
                 \* line 235 binds result; results at line 240 is unbound
                 THEN Raises
             ELSE Returns(<< >>)

Pending == [state |-> "pending", value |-> << >>]

TaskOf(r) == [state |-> IF r.raised THEN "failed" ELSE "completed", value |-> r.value]

InitFiles ==
    /\ pages_content = << >>
    /\ InitMerge
    /\ InitParseIdle
    /\ files \in UNION {[1..n -> FileKinds] : n \in 0..MaxFiles}
    /\ task = << >>
    /\ orch_pc = "start"
    /\ aggregated = << >>
    /\ stored = << >>
    /\ notified = FALSE
    /\ outage = "none"
    /\ orch_result = NoOrchResult
    /\ InitLocationIdle
    /\ InitModelsIdle

OrchReturn(status, count) ==
    /\ orch_pc' = "done"
    /\ orch_result' = [status |-> status, invoice_count |-> count]

\* lines 105-129: the input is checked and one activity per blob scheduled
OrchStart ==
    /\ orch_pc = "start"
    /\ IF files = << >>
       THEN /\ OrchReturn("failed", 0)
            /\ UNCHANGED task
       ELSE /\ orch_pc' = "task_all"
            /\ task' = [i \in 1..Len(files) |-> Pending]
            /\ UNCHANGED orch_result
    /\ UNCHANGED <<files, aggregated, stored, notified, outage, nonfilevars>>

\* one scheduled activity runs; the activities run in any order
RunFileActivity ==
    /\ orch_pc = "task_all"
    /\ \E i \in 1..Len(files) :
          /\ task[i].state = "pending"
          /\ task' = [task EXCEPT ![i] = TaskOf(process_file_activity(files[i], i))]
    /\ UNCHANGED <<files, orch_pc, aggregated, stored, notified, outage, orch_result,
                   nonfilevars>>

RECURSIVE Extend(_)
Extend(results) ==
    IF results = << >> THEN << >>
    ELSE Head(results).value \o Extend(Tail(results))

\* variant: the results are combined as soon as one activity has completed
TaskAll_eager ==
    /\ orch_pc = "task_all"
    /\ \E i \in 1..Len(task) : task[i].state = "completed"
    /\ aggregated' = Extend(task)
    /\ orch_pc' = "store"
    /\ UNCHANGED <<files, task, stored, notified, outage, orch_result, nonfilevars>>

\* lines 131-144: task_all raises when an activity has failed, into the
\* except clause of lines 176-183; else the results are combined
TaskAll ==
    /\ orch_pc = "task_all"
    /\ IF \E i \in 1..Len(task) : task[i].state = "failed"
       THEN /\ OrchReturn("failed", 0)
            /\ UNCHANGED aggregated
       ELSE /\ \A i \in 1..Len(task) : task[i].state = "completed"
            /\ aggregated' = Extend(task)
            /\ IF aggregated' = << >>
               THEN OrchReturn("completed", 0)
               ELSE /\ orch_pc' = "store"
                    /\ UNCHANGED orch_result
    /\ UNCHANGED <<files, task, stored, notified, outage, nonfilevars>>

\* line 151: store_invoices_activity returns or raises
StoreInvoices ==
    /\ orch_pc = "store"
    /\ \/ /\ stored' = aggregated
          /\ orch_pc' = "notify"
          /\ UNCHANGED <<outage, orch_result>>
       \/ /\ outage' = "store"
          /\ OrchReturn("failed", 0)
          /\ UNCHANGED stored
    /\ UNCHANGED <<files, task, aggregated, notified, nonfilevars>>

\* lines 166-174: send_email_activity returns or raises
SendEmail ==
    /\ orch_pc = "notify"
    /\ \/ /\ notified' = TRUE
          /\ OrchReturn("completed", Len(aggregated))
          /\ UNCHANGED outage
       \/ /\ outage' = "notify"
          /\ OrchReturn("failed", 0)
          /\ UNCHANGED notified
    /\ UNCHANGED <<files, task, aggregated, stored, nonfilevars>>

NextFiles ==
    \/ OrchStart
    \/ RunFileActivity
    \/ TaskAll
    \/ StoreInvoices
    \/ SendEmail

SpecFiles == InitFiles /\ [][NextFiles]_vars

\* ------------------------------------------ models.py: the location resolver
\* An address is a sequence of tokens: words, the comma and the blank.  A
\* value that is no string (a number, a JSON object, null) has isStr FALSE.
StateTokens == {"IL", "NV"}

DigitTokens == {"12", "123", "62704"}

NameTokens == {"Reno", "Main", "St", "Springfield"}

\* the characters \b treats as part of a word
IsWord(t) == t \in StateTokens \cup DigitTokens \cup NameTokens

Str(toks) == [isStr |-> TRUE, toks |-> toks]

NotAString == [isStr |-> FALSE, toks |-> << >>]

NA == <<"N/A">>

\* address.split(',')
RECURSIVE split(_, _)
split(toks, part) ==
    IF toks = << >> THEN <<part>>
    ELSE IF Head(toks) = "," THEN <<part>> \o split(Tail(toks), << >>)
    ELSE split(Tail(toks), Append(part, Head(toks)))

\* str.strip() of a token sequence
RECURSIVE lstrip_blank(_)
lstrip_blank(p) ==
    IF p # << >> /\ Head(p) = " " THEN lstrip_blank(Tail(p)) ELSE p

RECURSIVE rstrip_blank(_)
rstrip_blank(p) ==
    IF p # << >> /\ p[Len(p)] = " " THEN rstrip_blank(SubSeq(p, 1, Len(p) - 1)) ELSE p

strip_blank(p) == lstrip_blank(rstrip_blank(p))

\* re.search(r'\b([A-Z]{2})\b', part): the position of the first token of
\* two uppercase letters that is a word of its own, 0 when there is none
RECURSIVE state_match(_, _)
state_match(part, i) ==
    IF i > Len(part) THEN 0
    ELSE IF /\ part[i] \in StateTokens
            /\ (i = 1 \/ ~IsWord(part[i - 1]))
            /\ (i = Len(part) \/ ~IsWord(part[i + 1]))
        THEN i
    ELSE state_match(part, i + 1)

\* re.sub(r'\d+', '', city)
RECURSIVE remove_digits(_)
remove_digits(p) ==
    IF p = << >> THEN << >>
    ELSE (IF Head(p) \in DigitTokens THEN << >> ELSE <<Head(p)>>)
             \o remove_digits(Tail(p))

\* variant: the first component is searched for a state too
RECURSIVE scan_parts_any(_, _)
scan_parts_any(parts, i) ==
    IF i < 1 THEN NA
    ELSE IF state_match(parts[i], 1) # 0 /\ i > 1
        THEN strip_blank(remove_digits(strip_blank(parts[i - 1])))
                 \o <<",", " ", parts[i][state_match(parts[i], 1)]>>
    ELSE IF state_match(parts[i], 1) # 0
        THEN <<",", " ", parts[i][state_match(parts[i], 1)]>>
    ELSE scan_parts_any(parts, i - 1)

\* lines 109-118: the loop over range(len(parts) - 1, -1, -1)
RECURSIVE scan_parts(_, _)
scan_parts(parts, i) ==
    IF i < 1 THEN NA
    ELSE IF state_match(parts[i], 1) # 0 /\ i > 1
        THEN strip_blank(remove_digits(strip_blank(parts[i - 1])))
                 \o <<",", " ", parts[i][state_match(parts[i], 1)]>>
    ELSE scan_parts(parts, i - 1)

StripAll(parts) == [i \in 1..Len(parts) |-> strip_blank(parts[i])]

\* Invoice.extract_location_from_address; a value without .split raises
\* inside the try and gives "N/A" as well
extract_location_from_address(address) ==
    IF ~address.isStr \/ address.toks = << >> THEN NA
    ELSE LET parts == StripAll(split(address.toks, << >>))
         IN  scan_parts(parts, Len(parts))

\* Invoice.from_dict lines 125-131
resolve_location(shipping, sold_to) ==
    IF extract_location_from_address(shipping) = NA
    THEN extract_location_from_address(sold_to)
    ELSE extract_location_from_address(shipping)

AddrTokens == {"IL", "Reno", "12", ",", " "}

MainStreet ==
    <<"123", " ", "Main", " ", "St", ",", " ", "Springfield", ",", " ", "IL", " ", "62704">>

Addresses ==
    {Str(t) : t \in UNION {[1..n -> AddrTokens] : n \in 0..MaxAddrLen}}
        \cup {Str(MainStreet), NotAString}

SoldToAddresses == {Str(<< >>), Str(<<"Reno", ",", "NV">>), Str(<<"Reno">>)}

InitLocation ==
    /\ pages_content = << >>
    /\ InitMerge
    /\ InitParseIdle
    /\ InitFilesIdle
    /\ shipping_addr \in Addresses
    /\ sold_to_addr \in SoldToAddresses
    /\ loc_pc = "input"
    /\ location = << >>
    /\ InitModelsIdle

RunExtractLocation ==
    /\ loc_pc = "input"
    /\ loc_pc' = "extracted"
    /\ location' = extract_location_from_address(shipping_addr)
    /\ UNCHANGED <<shipping_addr, sold_to_addr, nonlocvars>>

RunResolveLocation ==
    /\ loc_pc = "input"
    /\ loc_pc' = "resolved"
    /\ location' = resolve_location(shipping_addr, sold_to_addr)
    /\ UNCHANGED <<shipping_addr, sold_to_addr, nonlocvars>>

NextLocation ==
    \/ RunExtractLocation
    \/ RunResolveLocation

SpecLocation == InitLocation /\ [][NextLocation]_vars

\* ================================================================ models.py
\* InvoiceItem and Invoice: construction from raw dicts, serialisation and
\* page slicing.  A raw value is one of: a number, a string, None, or an
\* absent key.

ITEMS_PER_PAGE == 10

Absent == [t |-> "absent", n |-> 0, s |-> ""]

Null == [t |-> "null", n |-> 0, s |-> ""]

NumV(n) == [t |-> "num", n |-> n, s |-> ""]

StrV(s) == [t |-> "str", n |-> 0, s |-> s]

\* dict.get(key, default)
Get(v, default) == IF v.t = "absent" THEN default ELSE v

\* the decimal digits of a non-negative int
RECURSIVE IntStr(_)
IntStr(n) ==
    LET digits == <<"0", "1", "2", "3", "4", "5", "6", "7", "8", "9">>
    IN  IF n < 10 THEN digits[n + 1]
        ELSE IntStr(n \div 10) \o digits[(n % 10) + 1]

\* float(x): numbers convert, numeric strings ("6", "4") parse, anything
\* else (other text, None) raises
float(v) ==
    CASE v.t = "num" -> Returns(v.n)
      [] v.t = "str" /\ v.s \in {"6", "4"} -> Returns(IF v.s = "6" THEN 6 ELSE 4)
      [] OTHER -> Raises

\* str(x): never raises
str(v) ==
    CASE v.t = "str" -> v.s
      [] v.t = "num" -> IntStr(v.n)
      [] OTHER -> "None"

\* a line item as the extraction engine normally reports it
StandardItem(k) ==
    [item_number         |-> NumV(k),
     product_category    |-> StrV("DAIRY"),
     quantity_in_a_case  |-> NumV(6),
     measurement         |-> NumV(4),
     quantity_shipped    |-> NumV(2),
     total_units_ordered |-> NumV(48),
     split_price         |-> StrV("N/A"),
     currency            |-> StrV("USD"),
     page_number         |-> Absent,
     item_index          |-> Absent]

\* the ways a reported line item departs from the normal one
Deviate(item, dev) ==
    CASE dev = "wrong_total" -> [item EXCEPT !.total_units_ordered = NumV(7)]
      [] dev = "no_shipped" ->
            [item EXCEPT !.quantity_shipped = Absent, !.total_units_ordered = NumV(7)]
      [] dev = "bare" ->
            [item_number |-> Absent, product_category |-> Absent,
             quantity_in_a_case |-> Absent, measurement |-> Absent,
             quantity_shipped |-> Absent, total_units_ordered |-> Absent,
             split_price |-> Absent, currency |-> Absent,
             page_number |-> Absent, item_index |-> Absent]
      [] dev = "bad_number" -> [item EXCEPT !.quantity_in_a_case = StrV("abc")]
      [] dev = "null_number" -> [item EXCEPT !.measurement = Null]
      [] dev = "numeric_string" -> [item EXCEPT !.quantity_in_a_case = StrV("6")]
      [] dev = "stale_page" -> [item EXCEPT !.page_number = NumV(5)]
      [] OTHER ->
            [item EXCEPT !.product_category = Absent, !.split_price = Absent,
                         !.currency = Absent]

\* InvoiceItem.from_dict: the text fields go through str(), the numeric
\* fields through float(); the remaining fields of the class follow the same
\* two patterns
InvoiceItem_from_dict(d) ==
    LET qc == float(Get(d.quantity_in_a_case, NumV(0)))
        me == float(Get(d.measurement, NumV(0)))
        qs == float(Get(d.quantity_shipped, NumV(0)))
        tu == float(Get(d.total_units_ordered, NumV(0)))
    IN  IF qc.raised \/ me.raised \/ qs.raised \/ tu.raised THEN Raises
        ELSE Returns([Item_Number              |-> str(Get(d.item_number, StrV(""))),
                 Product_Category         |-> str(Get(d.product_category, StrV(""))),
                 Quantity_In_a_Case       |-> qc.value,
                 Measurement_Of_Each_Item |-> me.value,
                 Quantity_Shipped         |-> qs.value,
                 Total_Units_Ordered      |-> tu.value,
                 Split_Price              |-> str(Get(d.split_price, StrV(""))),
                 Currency                 |-> str(Get(d.currency, StrV(""))),
                 page_number              |-> Get(d.page_number, NumV(1)).n,
                 item_index               |-> Get(d.item_index, NumV(0)).n])

InvoiceItem_to_dict(item) ==
    [item_number         |-> StrV(item.Item_Number),
     product_category    |-> StrV(item.Product_Category),
     quantity_in_a_case  |-> NumV(item.Quantity_In_a_Case),
     measurement         |-> NumV(item.Measurement_Of_Each_Item),
     quantity_shipped    |-> NumV(item.Quantity_Shipped),
     total_units_ordered |-> NumV(item.Total_Units_Ordered),
     split_price         |-> StrV(item.Split_Price),
     currency            |-> StrV(item.Currency),
     page_number         |-> NumV(item.page_number),
     item_index          |-> NumV(item.item_index)]

\* max(iterable, default=d)
max(S, d) == IF S = {} THEN d ELSE CHOOSE m \in S : \A x \in S : x <= m

\* min(a, b, ...)
min(S) == CHOOSE m \in S : \A x \in S : m <= x

PagesFor(n, per_page) == (n + per_page - 1) \div per_page

\* variant: the page an item lands on counts from zero
AnnotateItem_zero(item, idx) ==
    [item EXCEPT !.page_number = NumV(idx \div ITEMS_PER_PAGE),
                 !.item_index = NumV(idx % ITEMS_PER_PAGE)]

\* item_data.update({...}) for the item at 0-based position idx
AnnotateItem(item, idx) ==
    [item EXCEPT !.page_number = NumV((idx \div ITEMS_PER_PAGE) + 1),
                 !.item_index = NumV(idx % ITEMS_PER_PAGE)]

\* 1-based positions of the items whose conversion raises
RaisingItems(items) ==
    {i \in 1..Len(items) : InvoiceItem_from_dict(AnnotateItem(items[i], i - 1)).raised}

\* the input items after the loop: items are updated in place up to and
\* including the first one whose conversion raises
ItemsAfterLoop(items) ==
    LET upto == IF RaisingItems(items) = {} THEN Len(items)
                ELSE CHOOSE i \in RaisingItems(items) :
                        \A j \in RaisingItems(items) : i <= j
    IN  [i \in 1..Len(items) |->
            IF i <= upto THEN AnnotateItem(items[i], i - 1) ELSE items[i]]

\* total_pages as Invoice.from_dict computes it
TotalPages(items_data) ==
    max({PagesFor(Len(items_data), ITEMS_PER_PAGE),
         max({Get(items_data[i].page_number, NumV(1)).n : i \in 1..Len(items_data)}, 1)}, 0)

\* Invoice.from_dict; po is the random purchase-order number drawn
Invoice_from_dict(d, po) ==
    LET items_data == d.items
        total_pages == TotalPages(items_data)
        current_page == max({1, min({Get(d.page, NumV(1)).n, total_pages})}, 0)
        total == float(Get(d.total, NumV(0)))
    IN  IF RaisingItems(items_data) # {} \/ total.raised THEN Raises
        ELSE Returns([Invoice_Number   |-> str(Get(d.invoice_number, StrV(""))),
                 Shipping_Address |-> d.shipping,
                 Sold_to_Address  |-> d.sold_to,
                 Total            |-> total.value,
                 PO_NUMBER        |-> po,
                 location         |-> resolve_location(d.shipping, d.sold_to),
                 Items            |-> [i \in 1..Len(items_data) |->
                                        InvoiceItem_from_dict(
                                            AnnotateItem(items_data[i], i - 1)).value],
                 page             |-> current_page,
                 total_pages      |-> total_pages,
                 items_per_page   |-> ITEMS_PER_PAGE,
                 total_items      |-> Len(items_data)])

\* the pagination fields Invoice.to_dict recomputes on the object
Recalculated(inv) ==
    [inv EXCEPT
        !.total_pages =
            max({inv.total_pages,
                 max({inv.Items[i].page_number : i \in 1..Len(inv.Items)}, 1),
                 PagesFor(Len(inv.Items), inv.items_per_page)}, 0),
        !.total_items = Len(inv.Items)]

\* the dict Invoice.to_dict returns
Invoice_to_dict(inv) ==
    LET self == Recalculated(inv)
    IN  [invoice_number  |-> StrV(self.Invoice_Number),
         shipping        |-> self.Shipping_Address,
         sold_to         |-> self.Sold_to_Address,
         total           |-> NumV(self.Total),
         po_number       |-> NumV(self.PO_NUMBER),
         location        |-> self.location,
         Items           |-> [i \in 1..Len(self.Items) |-> InvoiceItem_to_dict(self.Items[i])],
         pagination_info |-> [current_page   |-> self.page,
                              total_pages    |-> self.total_pages,
                              items_per_page |-> self.items_per_page,
                              total_items    |-> self.total_items]]

\* Invoice.get_items_for_page: Items[start_idx:end_idx]
get_items_for_page(inv, page_number) ==
    LET start_idx == (page_number - 1) * inv.items_per_page
        end_idx == min({start_idx + inv.items_per_page, Len(inv.Items)})
    IN  IF start_idx < 0 THEN << >> ELSE SubSeq(inv.Items, start_idx + 1, end_idx)

\* the bounds of random.randint(10000, 99999)
PONumbers == {10000, 99999}

\* the raw invoices given to Invoice.from_dict: n normal items followed by
\* up to MaxVaried deviating ones; an absent 'List of Items' is the empty list
RawInvoices ==
    {[invoice_number |-> StrV("INV-1"),
      shipping       |-> sh,
      sold_to        |-> Str(<<"Reno", ",", "NV">>),
      total          |-> tot,
      page           |-> pg,
      items          |-> [i \in 1..(n + Len(devs)) |->
                            IF i <= n THEN StandardItem(i)
                            ELSE Deviate(StandardItem(i), devs[i - n])]] :
        sh \in {Str(MainStreet), Str(<< >>)},
        tot \in {NumV(7)},
        pg \in {Absent, NumV(2)},
        n \in 0..MaxItemCount,
        devs \in UNION {[1..k ->
                    {"wrong_total", "no_shipped", "bare", "bad_number", "null_number",
                     "numeric_string", "stale_page", "no_defaults"}] : k \in 0..MaxVaried}}
    \cup
    {[invoice_number |-> StrV("INV-1"), shipping |-> Str(MainStreet),
      sold_to |-> Str(<<"Reno", ",", "NV">>), total |-> Null, page |-> Absent,
      items |-> << >>]}

InitModels ==
    /\ pages_content = << >>
    /\ InitMerge
    /\ InitParseIdle
    /\ InitFilesIdle
    /\ InitLocationIdle
    /\ data \in RawInvoices
    /\ model_pc = "input"
    /\ invoice = << >>
    /\ dumped = << >>
    /\ store = << >>
    /\ large_page = << >>
    /\ excel = << >>
    /\ runs = << >>

\* Invoice.from_dict(data): returns the invoice or raises; the input items
\* are updated in place either way
FromDict ==
    /\ model_pc = "input"
    /\ \E po \in PONumbers :
        LET r == Invoice_from_dict(data, po)
        IN  /\ invoice' = IF r.raised THEN << >> ELSE r.value
            /\ model_pc' = IF r.raised THEN "failed" ELSE "built"
    /\ data' = [data EXCEPT !.items = ItemsAfterLoop(data.items)]
    /\ UNCHANGED <<dumped, nonmodelvars>>

\* invoice.to_dict()
ToDict ==
    /\ model_pc = "built"
    /\ invoice' = Recalculated(invoice)
    /\ dumped' = Invoice_to_dict(invoice)
    /\ model_pc' = "dumped"
    /\ UNCHANGED <<data, nonmodelvars>>

\* the dict to_dict returned, as Invoice.from_dict reads it: each field of the
\* raw invoice is looked up under its own key (items stands for the key
\* 'List of Items', Items for 'Items'; the page is under 'pagination_info')
ReadBack(d) ==
    LET get(key, default) == IF key \in DOMAIN d THEN d[key] ELSE default
    IN  [invoice_number |-> get("invoice_number", Absent),
         shipping       |-> get("shipping", Str(<< >>)),
         sold_to        |-> get("sold_to", Str(<< >>)),
         total          |-> get("total", Absent),
         page           |-> get("page", Absent),
         items          |-> get("items", << >>)]

\* Invoice.from_dict(invoice.to_dict())
FromDump ==
    /\ model_pc = "dumped"
    /\ \E po \in PONumbers :
        LET r == Invoice_from_dict(ReadBack(dumped), po)
        IN  /\ invoice' = IF r.raised THEN << >> ELSE r.value
            /\ model_pc' = IF r.raised THEN "failed" ELSE "restored"
    /\ data' = ReadBack(dumped)
    /\ UNCHANGED <<dumped, nonmodelvars>>

NextModels == FromDict \/ ToDict \/ FromDump

SpecModels == InitModels /\ [][NextModels]_vars

\* ================================================================ store_invoices_activity
\* function_app.py 259-337.  store holds the activity's input, its locals,
\* the batches handed to cosmos_manager.store_invoices and the value returned.

\* a raw invoice with n normal items followed by the deviating ones
RawInvoice(n, devs) ==
    [invoice_number |-> StrV("INV-1"),
     shipping       |-> Str(MainStreet),
     sold_to        |-> Str(<<"Reno", ",", "NV">>),
     total          |-> NumV(7),
     page           |-> Absent,
     items          |-> [i \in 1..(n + Len(devs)) |->
                            IF i <= n THEN StandardItem(i)
                            ELSE Deviate(StandardItem(i), devs[i - n])]]

\* the activity's inputs: none or a full page of one-item invoices, followed
\* by up to MaxTail invoices that are small, larger than a page, or carry an
\* item that cannot be converted
InitStore ==
    /\ pages_content = << >>
    /\ InitMerge
    /\ InitParseIdle
    /\ InitFilesIdle
    /\ InitLocationIdle
    /\ data = << >>
    /\ model_pc = "idle"
    /\ invoice = << >>
    /\ dumped = << >>
    /\ large_page = << >>
    /\ excel = << >>
    /\ runs = << >>
    /\ \E user_id \in {"u1", ""}, full \in {0, ITEMS_PER_PAGE} :
       \E tail \in UNION {[1..k -> {RawInvoice(1, << >>), RawInvoice(ITEMS_PER_PAGE + 1, << >>),
                                   RawInvoice(1, <<"bad_number">>)}] : k \in 0..MaxTail} :
        store = [pc            |-> "input",
                 user_id       |-> user_id,
                 invoices_data |-> [i \in 1..full |-> RawInvoice(1, << >>)] \o tail,
                 invoices      |-> << >>,
                 page          |-> 0,
                 total_pages   |-> 0,
                 stored_count  |-> 0,
                 submitted     |-> << >>,
                 result        |-> "none"]

\* lines 264-302: input checks, the conversion loop (an invoice whose
\* conversion raises is logged and left out) and the page count; the random
\* purchase-order numbers drawn alternate between the two ends of the range
StoreConvert ==
    /\ store.pc = "input"
    /\ \E po \in PONumbers :
        LET converted == [i \in 1..Len(store.invoices_data) |->
                            Invoice_from_dict(store.invoices_data[i],
                                              IF i % 2 = 1 THEN po ELSE 109999 - po)]
            invoices == [i \in 1..Len(SelectSeq(converted, LAMBDA r : ~r.raised)) |->
                            SelectSeq(converted, LAMBDA r : ~r.raised)[i].value]
        IN  store' =
              IF store.user_id = "" THEN [store EXCEPT !.pc = "done", !.result = "raised"]
              ELSE IF store.invoices_data = << >>
              THEN [store EXCEPT !.pc = "done", !.result = "completed"]
              ELSE [store EXCEPT
                      !.invoices_data = [i \in 1..Len(store.invoices_data) |->
                            [store.invoices_data[i] EXCEPT
                                !.items = ItemsAfterLoop(store.invoices_data[i].items)]],
                      !.invoices = invoices,
                      !.pc = IF invoices = << >> THEN "done" ELSE "storing",
                      !.result = IF invoices = << >> THEN "completed" ELSE "none",
                      !.page = IF invoices = << >> THEN 0 ELSE 1,
                      !.total_pages = IF invoices = << >> THEN 0
                                      ELSE PagesFor(Len(invoices), ITEMS_PER_PAGE)]
    /\ UNCHANGED nonstorevars

\* lines 308-324, one iteration: the invoices of the page get page and
\* total_pages and are handed to the store, which succeeds or raises
StorePage ==
    /\ store.pc = "storing"
    /\ store.page <= store.total_pages
    /\ LET start_idx == (store.page - 1) * ITEMS_PER_PAGE
           end_idx == min({start_idx + ITEMS_PER_PAGE, Len(store.invoices)})
           tagged == [i \in 1..Len(store.invoices) |->
                        IF i > start_idx /\ i <= end_idx
                        THEN [store.invoices[i] EXCEPT !.page = store.page,
                                                       !.total_pages = store.total_pages]
                        ELSE store.invoices[i]]
       IN  \E ok \in BOOLEAN :
            store' =
              IF ok
              THEN [store EXCEPT
                      !.invoices = tagged,
                      !.submitted = Append(@, SubSeq(tagged, start_idx + 1, end_idx)),
                      !.stored_count = @ + (end_idx - start_idx),
                      !.page = @ + 1]
              ELSE [store EXCEPT !.invoices = tagged, !.pc = "done", !.result = "raised"]
    /\ UNCHANGED nonstorevars

\* lines 326-333
StoreReturn ==
    /\ store.pc = "storing"
    /\ store.page > store.total_pages
    /\ store' = [store EXCEPT !.pc = "done", !.result = "completed"]
    /\ UNCHANGED nonstorevars

NextStore == StoreConvert \/ StorePage \/ StoreReturn

SpecStore == InitStore /\ [][NextStore]_vars

\* ================================================================ handle_large_page
\* excel.py 536-591.  The formatted page is a sequence of lines; a line is
\* [k, t] with k its kind and t the table it belongs to (0: none).  The
\* newlines that join them are left out.

\* format_page_content for a page with the given number of text lines and
\* one row count per table
RECURSIVE format_tables(_, _)
format_tables(tables, done) ==
    IF tables = << >> THEN << >>
    ELSE <<[k |-> "table_start", t |-> done + 1], [k |-> "header", t |-> done + 1]>>
         \o [r \in 1..Head(tables) |-> [k |-> "row", t |-> done + 1]]
         \o <<[k |-> "table_end", t |-> done + 1]>>
         \o format_tables(Tail(tables), done + 1)

format_page_content(page_data) ==
    <<[k |-> "page_start", t |-> 0], [k |-> "text_content", t |-> 0]>>
    \o [l \in 1..page_data.text |-> [k |-> "line", t |-> 0]]
    \o format_tables(page_data.tables, 0)
    \o <<[k |-> "page_end", t |-> 0]>>

\* variant: the text is also cut at the table-end markers
RECURSIVE re_split_at_ends(_, _)
re_split_at_ends(toks, cur) ==
    IF toks = << >> THEN <<cur>>
    ELSE IF Head(toks).k \in {"table_start", "table_end"}
    THEN <<cur, <<Head(toks)>>>> \o re_split_at_ends(Tail(toks), << >>)
    ELSE re_split_at_ends(Tail(toks), Append(cur, Head(toks)))

\* re.large_page(r'(----- Table \d+ Start -----)', page_text): the text between
\* the markers and, the pattern being a group, the markers themselves
RECURSIVE re_split(_, _)
re_split(toks, cur) ==
    IF toks = << >> THEN <<cur>>
    ELSE IF Head(toks).k = "table_start"
    THEN <<cur, <<Head(toks)>>>> \o re_split(Tail(toks), << >>)
    ELSE re_split(Tail(toks), Append(cur, Head(toks)))

\* '\n'.join(current_part)
RECURSIVE join(_)
join(current_part) ==
    IF current_part = << >> THEN << >> ELSE Head(current_part) \o join(Tail(current_part))

\* send_to_gpt(segment) and process_page_result: the engine gives nothing,
\* or its result is folded, or the fold raises and handle_large_page is left
Send(outcome) ==
    [large_page EXCEPT
        !.sent = Append(@, join(large_page.current_part)),
        !.folded = IF outcome = "folded" THEN Append(@, Len(large_page.sent) + 1) ELSE @,
        !.pc = IF outcome = "raises" THEN "raised" ELSE @]

InitSplit ==
    /\ pages_content = << >>
    /\ InitMerge
    /\ InitParseIdle
    /\ InitFilesIdle
    /\ InitLocationIdle
    /\ data = << >>
    /\ model_pc = "idle"
    /\ invoice = << >>
    /\ dumped = << >>
    /\ store = << >>
    /\ excel = << >>
    /\ runs = << >>
    /\ \E text_lines \in 0..1 :
       \E tables \in UNION {[1..n -> 0..MaxRows] : n \in 0..MaxPageTables} :
        large_page = [pc           |-> "loop",
                 page_text    |-> format_page_content([text |-> text_lines, tables |-> tables]),
                 parts        |-> re_split(
                                    format_page_content([text |-> text_lines, tables |-> tables]),
                                    << >>),
                 idx          |-> 1,
                 current_part |-> << >>,
                 sent         |-> << >>,
                 folded       |-> << >>]

\* lines 574-583, one iteration of the loop over the parts
SplitPart ==
    /\ large_page.pc = "loop"
    /\ large_page.idx <= Len(large_page.parts)
    /\ LET part == large_page.parts[large_page.idx]
           starts == part # << >> /\ Head(part).k \in {"table_start", "table_end"}
       IN  \E outcome \in {"none", "folded", "raises"} :
            large_page' =
              IF starts /\ large_page.current_part # << >>
              THEN IF outcome = "raises" THEN Send(outcome)
                   ELSE [Send(outcome) EXCEPT !.current_part = <<part>>, !.idx = @ + 1]
              ELSE [large_page EXCEPT !.current_part = Append(@, part), !.idx = @ + 1]
    /\ UNCHANGED nonsplitvars

\* lines 585-591: the last part, and the return
SplitLast ==
    /\ large_page.pc = "loop"
    /\ large_page.idx > Len(large_page.parts)
    /\ \E outcome \in {"none", "folded", "raises"} :
        large_page' =
          IF large_page.current_part # << >>
          THEN IF outcome = "raises" THEN Send(outcome)
               ELSE [Send(outcome) EXCEPT !.pc = "done"]
          ELSE [large_page EXCEPT !.pc = "done"]
    /\ UNCHANGED nonsplitvars

NextSplit == SplitPart \/ SplitLast

SpecSplit == InitSplit /\ [][NextSplit]_vars

\* ================================================================ process_excel_file
\* excel.py 654-722.  The sheet has total_rows data rows, numbered 1.. in
\* sheet order, under a header row of the given number of columns; in a
\* table row 0 is the header line and k the line of data row k.

ROWS_PER_PAGE == 10

InitExcel ==
    /\ pages_content = << >>
    /\ InitMerge
    /\ InitParseIdle
    /\ InitFilesIdle
    /\ InitLocationIdle
    /\ data = << >>
    /\ model_pc = "idle"
    /\ invoice = << >>
    /\ dumped = << >>
    /\ store = << >>
    /\ large_page = << >>
    /\ runs = << >>
    /\ \E total_rows \in 0..MaxSheetRows, columns \in 1..MaxColumns :
        excel = [pc            |-> "read",
                 total_rows    |-> total_rows,
                 headers       |-> columns,
                 num_pages     |-> 0,
                 page_num      |-> 0,
                 pages_content |-> << >>]

\* lines 660-674: the file is read (or the reader raises, which is logged and
\* re-raised) and the number of pages computed
ExcelRead ==
    /\ excel.pc = "read"
    /\ \E readable \in BOOLEAN :
        excel' = IF readable
                 THEN [excel EXCEPT
                         !.pc = "loop",
                         !.num_pages = (excel.total_rows + ROWS_PER_PAGE - 1) \div ROWS_PER_PAGE]
                 ELSE [excel EXCEPT !.pc = "raised"]
    /\ UNCHANGED <<docvars, parsevars, filevars, locvars, modelvars, store, large_page, runs>>

\* variant: a chunk starts on the last row of the chunk before it
ExcelPage_overlap ==
    /\ excel.pc = "loop"
    /\ excel.page_num < excel.num_pages
    /\ LET start_idx == max({0, excel.page_num * ROWS_PER_PAGE - 1}, 0)
           end_idx == min({(excel.page_num + 1) * ROWS_PER_PAGE, excel.total_rows})
           page == [table_rows  |-> <<0>> \o [i \in 1..(end_idx - start_idx) |-> start_idx + i],
                    columns     |-> excel.headers,
                    start_row   |-> start_idx + 1,
                    end_row     |-> end_idx,
                    total_rows  |-> excel.total_rows,
                    page_number |-> excel.page_num + 1,
                    total_pages |-> excel.num_pages]
       IN  excel' = [excel EXCEPT
                        !.pages_content = ((excel.page_num + 1) :> page) @@ @,
                        !.page_num = @ + 1]
    /\ UNCHANGED <<docvars, parsevars, filevars, locvars, modelvars, store, large_page, runs>>

\* lines 677-714, one iteration: rows start_idx .. end_idx - 1 of the sheet
\* under the header line become the table of page page_num + 1
ExcelPage ==
    /\ excel.pc = "loop"
    /\ excel.page_num < excel.num_pages
    /\ LET start_idx == excel.page_num * ROWS_PER_PAGE
           end_idx == min({(excel.page_num + 1) * ROWS_PER_PAGE, excel.total_rows})
           page == [table_rows  |-> <<0>> \o [i \in 1..(end_idx - start_idx) |-> start_idx + i],
                    columns     |-> excel.headers,
                    start_row   |-> start_idx + 1,
                    end_row     |-> end_idx,
                    total_rows  |-> excel.total_rows,
                    page_number |-> excel.page_num + 1,
                    total_pages |-> excel.num_pages]
       IN  excel' = [excel EXCEPT
                        !.pages_content = ((excel.page_num + 1) :> page) @@ @,
                        !.page_num = @ + 1]
    /\ UNCHANGED <<docvars, parsevars, filevars, locvars, modelvars, store, large_page, runs>>

\* line 718: return pages_content
ExcelReturn ==
    /\ excel.pc = "loop"
    /\ excel.page_num = excel.num_pages
    /\ excel' = [excel EXCEPT !.pc = "done"]
    /\ UNCHANGED <<docvars, parsevars, filevars, locvars, modelvars, store, large_page, runs>>

NextExcel == ExcelRead \/ ExcelPage \/ ExcelReturn

SpecExcel == InitExcel /\ [][NextExcel]_vars

\* ================================================================ two documents at once
\* excel.py 741-767 run for two documents whose page steps interleave.  Each
\* run has its own locals all_invoices and current_invoice; the records live
\* in the one heap of the process.  A page's reply is one fragment.

\* the reply for page pos of run k: a record of invoice A or B with one item,
\* or a value that is not a record
RunFragment(kind, k, pos) ==
    IF kind = "other" THEN Obj("other", NoBody)
    ELSE Obj("dict", [num |-> kind, hasItems |-> TRUE,
                      items |-> <<[id |-> 10 * k + pos, name |-> ItemName(pos)]>>,
                      total |-> 0, supplier |-> k])

InitRuns ==
    /\ pages_content = << >>
    /\ InitMerge
    /\ InitParseIdle
    /\ InitFilesIdle
    /\ InitLocationIdle
    /\ data = << >>
    /\ model_pc = "idle"
    /\ invoice = << >>
    /\ dumped = << >>
    /\ store = << >>
    /\ large_page = << >>
    /\ excel = << >>
    /\ \E kinds \in [1..2 -> UNION {[1..n -> {"A", "B", "other"}] : n \in 0..MaxRunPages}] :
        runs = [heap |-> << >>,
                run  |-> [k \in 1..2 |->
                            [pc              |-> "loop",
                             pages           |-> [i \in 1..Len(kinds[k]) |->
                                                    RunFragment(kinds[k][i], k, i)],
                             page_idx        |-> 0,
                             current_invoice |-> 0,
                             all_invoices    |-> << >>,
                             returned        |-> << >>]]]

\* variant: the open invoice is one module-level variable
RunPage_shared(k) ==
    /\ runs.run[k].pc = "loop"
    /\ runs.run[k].page_idx < Len(runs.run[k].pages)
    /\ LET r == runs.run[k]
           out == merge_or_add_invoice(r.pages[r.page_idx + 1], runs.run[1].current_invoice,
                                       runs.heap, r.all_invoices)
       IN  runs' =
             IF out.raised THEN [runs EXCEPT !.run[k].page_idx = @ + 1]
             ELSE [[runs EXCEPT !.run[1].current_invoice = out.current_invoice] EXCEPT
                     !.heap = out.heap,
                     !.run[k].page_idx = @ + 1,
                     !.run[k].all_invoices = out.all_invoices]
    /\ UNCHANGED <<docvars, parsevars, filevars, locvars, modelvars, store, large_page, excel>>

\* lines 745-762 for run k: the next page's reply is folded; an exception of
\* the fold is logged and the run's current_invoice stays as it was
RunPage(k) ==
    /\ runs.run[k].pc = "loop"
    /\ runs.run[k].page_idx < Len(runs.run[k].pages)
    /\ LET r == runs.run[k]
           out == merge_or_add_invoice(r.pages[r.page_idx + 1], r.current_invoice,
                                       runs.heap, r.all_invoices)
       IN  runs' =
             IF out.raised THEN [runs EXCEPT !.run[k].page_idx = @ + 1]
             ELSE [runs EXCEPT
                     !.heap = out.heap,
                     !.run[k].page_idx = @ + 1,
                     !.run[k].current_invoice = out.current_invoice,
                     !.run[k].all_invoices = out.all_invoices]
    /\ UNCHANGED <<docvars, parsevars, filevars, locvars, modelvars, store, large_page, excel>>

\* lines 764-767 for run k
RunFlush(k) ==
    /\ runs.run[k].pc = "loop"
    /\ runs.run[k].page_idx = Len(runs.run[k].pages)
    /\ LET r == runs.run[k]
           al == IF r.current_invoice # 0 THEN Append(r.all_invoices, r.current_invoice)
                 ELSE r.all_invoices
       IN  runs' = [runs EXCEPT
                     !.run[k].pc = "done",
                     !.run[k].all_invoices = al,
                     !.run[k].returned = [i \in 1..Len(al) |-> runs.heap[al[i]]]]
    /\ UNCHANGED <<docvars, parsevars, filevars, locvars, modelvars, store, large_page, excel>>

NextRuns == \E k \in 1..2 : RunPage(k) \/ RunFlush(k)

SpecRuns == InitRuns /\ [][NextRuns]_vars

\* ================================================================ claims
Returned == pc = "done"

\* ---- C1
RECURSIVE RunLength(_, _)
RunLength(fs, num) ==
    IF fs = << >> \/ Head(fs).num # num THEN 0 ELSE 1 + RunLength(Tail(fs), num)

RECURSIVE ConcatItems(_)
ConcatItems(fs) == IF fs = << >> THEN << >> ELSE Head(fs).items \o ConcatItems(Tail(fs))

\* one invoice per maximal run of equal Invoice Numbers, items concatenated
RECURSIVE ExpectedInvoices(_)
ExpectedInvoices(fs) ==
    IF fs = << >> THEN << >>
    ELSE LET k == RunLength(fs, Head(fs).num)
         IN  <<[num |-> Head(fs).num, items |-> ConcatItems(SubSeq(fs, 1, k))]>>
                 \o ExpectedInvoices(SubSeq(fs, k + 1, Len(fs)))

NumAndItems(invs) == [i \in 1..Len(invs) |-> [num |-> invs[i].num, items |-> invs[i].items]]

AllFoldedAreRecords == \A i \in 1..Len(folded) : folded[i].kind = "dict"

\* C1: when the fragments of a document (JSON records, folded one by one or
\* as the elements of a list) have all been folded without error and the open
\* invoice flushed, the returned list holds one invoice per maximal run of
\* consecutive fragments with the same Invoice Number, in the order the runs
\* began, each with the items of its run concatenated in fold order,
\* duplicates kept.
C1_RunsBecomeInvoices ==
    (Returned /\ ~raised /\ AllFoldedAreRecords)
        => NumAndItems(returned) = ExpectedInvoices(folded)

\* two fragments of one invoice merged, a third of another invoice after them
C1_Witness ==
    /\ Returned /\ ~raised /\ AllFoldedAreRecords
    /\ Len(folded) = 3
    /\ Len(returned) = 2
    /\ Len(returned[1].items) = 2 * MaxItems
    /\ returned[1].num = "A" /\ returned[2].num = "B"

\* ---- C2
Occurrences(id) ==
    UNION {{<<i, j>> : j \in {h \in 1..Len(returned[i].items) :
                                  returned[i].items[h].id = id}} :
               i \in 1..Len(returned)}

\* C2: every item of every fragment of a successfully parsed reply is in
\* exactly one returned invoice, and the items of an invoice are in extraction
\* order (item ids are handed out in extraction order).
C2_NoItemDropped ==
    Returned =>
        /\ \A k \in 1..Len(parsed_items) :
               Cardinality(Occurrences(parsed_items[k].id)) = 1
        /\ \A i \in 1..Len(returned) :
               \A j \in 1..(Len(returned[i].items) - 1) :
                   returned[i].items[j].id < returned[i].items[j + 1].id

\* ---- C3
\* C3: when all pages are consumed every invoice that was made the open
\* invoice is in the returned list exactly once.
C3_EveryOpenedInvoiceOnce ==
    Returned =>
        \A ref \in 1..Len(heap) :
            heap[ref].kind = "dict"
                => Cardinality({i \in 1..Len(all_invoices) : all_invoices[i] = ref}) = 1

\* ---- C4
FoldStep == pc = "fold" /\ (pc' # "fold" \/ elem_idx' # elem_idx)

FoldedElem == ElemOf(page_result.elems[elem_idx])

FoldIsNoOp ==
    /\ pc' # "except"
    /\ heap' = heap
    /\ all_invoices' = all_invoices
    /\ local_invoice' = local_invoice

\* C4 as claimed: folding a fragment without Invoice Number, or with an empty
\* item list, changes nothing and raises nothing.
C4_DegenerateFoldIsNoOp ==
    [][(FoldStep /\ FoldedElem.kind \in {"dict", "falsy"}
            /\ (FoldedElem.num = "" \/ FoldedElem.items = << >>))
        => FoldIsNoOp]_vars

\* C4 as amended: folding an empty fragment (None, {}) changes nothing and
\* raises nothing; a non-empty record without Invoice Number folded while an
\* invoice with an Invoice Number is open closes that invoice and becomes the
\* open invoice, and a record with an empty item list whose Invoice Number
\* differs from the open invoice's does the same.
C4_EmptyFoldIsNoOp ==
    [][/\ (FoldStep /\ FoldedElem.kind = "falsy") => FoldIsNoOp
       /\ (FoldStep /\ FoldedElem.kind = "dict" /\ local_invoice # 0
               /\ heap[local_invoice].kind = "dict"
               /\ (FoldedElem.num = "" \/ FoldedElem.items = << >>)
               /\ FoldedElem.num # heap[local_invoice].num)
           => /\ pc' # "except"
              /\ all_invoices' = Append(all_invoices, local_invoice)
              /\ local_invoice' = Len(heap) + 1
              /\ heap' = Append(heap, FoldedElem)]_vars

\* an empty fragment was folded while an invoice was open, and is not in it
C4_Witness ==
    /\ page_result.isList
    /\ elem_idx = 2
    /\ ElemOf(page_result.elems[1]).kind = "dict"
    /\ ElemOf(page_result.elems[2]).kind = "falsy"
    /\ pc = "sleep"
    /\ current_invoice # 0
    /\ heap[current_invoice] = ElemOf(page_result.elems[1])

\* ---- C5
\* the three documented strategies in order, stopping at the first success
ThreeLayerRecovery(raw) ==
    LET content == ExtractFenced(remove_non_printable(raw))
        j1 == JsonLoads(content)
        objs == BraceScan(content, 1, << >>)
        j3 == JsonLoads(FirstToLastBrace(content))
    IN  IF ~j1.err THEN Parsed(j1)
        ELSE IF objs # << >> THEN [none |-> FALSE, isList |-> TRUE, elems |-> objs]
        ELSE IF ~j3.err THEN Parsed(j3)
        ELSE NoneResult

\* C5: send_to_gpt returns what the first successful strategy of direct
\* parse, brace scan, first-to-last brace gives.
C5_LayeredRecovery ==
    parse_pc = "sent" => parse_out = ThreeLayerRecovery(text)

\* ---- C6
Count(t, k, i, j) == Cardinality({h \in i..j : t[h].k = k})

\* the position of the '}' that balances the '{' at i; 0 when there is none
Match(t, i) ==
    LET closes == {j \in (i + 1)..Len(t) : Count(t, "L", i, j) = Count(t, "R", i, j)}
    IN  IF closes = {} THEN 0 ELSE CHOOSE j \in closes : \A h \in closes : j <= h

IsBalancedObject(t, i) == t[i].k = "L" /\ Match(t, i) # 0

\* a '{' that lies in no earlier balanced substring and after no unclosed '{'
IsOutermost(t, i) ==
    /\ IsBalancedObject(t, i)
    /\ \A h \in 1..(i - 1) : t[h].k = "L" => (Match(t, h) # 0 /\ Match(t, h) < i)

ValidAt(t, i) == ~JsonLoads(SubSeq(t, i, Match(t, i))).err

RECURSIVE AllBalancedValid(_, _)
AllBalancedValid(t, i) ==
    IF i > Len(t) THEN << >>
    ELSE (IF IsBalancedObject(t, i) /\ ValidAt(t, i)
          THEN JsonLoads(SubSeq(t, i, Match(t, i))).elems ELSE << >>)
             \o AllBalancedValid(t, i + 1)

RECURSIVE OutermostValid(_, _)
OutermostValid(t, i) ==
    IF i > Len(t) THEN << >>
    ELSE (IF IsOutermost(t, i) /\ ValidAt(t, i)
          THEN JsonLoads(SubSeq(t, i, Match(t, i))).elems ELSE << >>)
             \o OutermostValid(t, i + 1)

ListOrNone(objs) ==
    IF objs = << >> THEN NoneResult
    ELSE [none |-> FALSE, isList |-> TRUE, elems |-> objs]

DirectParseFails == JsonLoads(StripFenceAndTag(text)).err

\* C6 as claimed: when direct parsing fails the scan returns, in text order,
\* every balanced {...} substring that is valid JSON.
C6_EveryBalancedObject ==
    (parse_pc = "cleaned" /\ DirectParseFails)
        => parse_out = ListOrNone(AllBalancedValid(StripFenceAndTag(text), 1))

\* C6 as amended: when direct parsing fails the scan returns, in text order,
\* the valid JSON ones among the outermost balanced {...} substrings that
\* come before any '{' that is never closed; a candidate that fails to parse
\* is skipped and hides nothing that starts after its end.
C6_OutermostObjects ==
    (parse_pc = "cleaned" /\ DirectParseFails)
        => parse_out = ListOrNone(OutermostValid(StripFenceAndTag(text), 1))

\* a malformed candidate, then a valid object, which alone is returned
C6_Witness ==
    /\ parse_pc = "cleaned"
    /\ Kinds(text) = <<"L", "X", "R", "L", "R">>
    /\ parse_out = [none |-> FALSE, isList |-> TRUE,
                    elems |-> <<<<Tok("L"), Tok("R")>>>>]

\* ---- C7
CallStep == pc \in {"call", "seg_call"} /\ calls' # calls

\* C7: a reply no strategy can parse makes send_to_gpt return None without
\* raising, the fold is skipped with the merge state as it was, and the page
\* loop goes on until every page has been taken.
C7_UnparsableReplyIsSkipped ==
    /\ [][(CallStep /\ unparsable')
            => /\ page_result' = NoneResult
               /\ pc' \in {"sleep", "seg_call"}
               /\ heap' = heap
               /\ all_invoices' = all_invoices
               /\ pc = "call" => current_invoice' = current_invoice
               /\ pc = "seg_call" => local_invoice' = local_invoice]_vars
    /\ [](Returned => page_idx = Len(Pages))

\* the second page got an unparsable reply while an invoice was open
C7_Witness ==
    /\ pc = "sleep"
    /\ unparsable
    /\ page_idx = 2
    /\ current_invoice # 0
    /\ heap[current_invoice].items # << >>

\* ---- C8
\* C8: when a page has failed, the open invoice and the completed list are
\* what they were when the page began.
C8_FailedPageContributesNothing ==
    pc = "except" =>
        /\ current_invoice = snap.current_invoice
        /\ all_invoices = snap.all_invoices
        /\ \A ref \in 1..Len(snap.heap) : heap[ref] = snap.heap[ref]

\* ---- C9
LastCall == calls[Len(calls)]

\* C9: engine calls are made page by page in increasing page number, a reply
\* is folded before any later call, every page is taken, and a page starts
\* from the merge state the page before it left.
C9_PagesInOrder ==
    /\ [](/\ \A i \in 1..Len(calls), j \in 1..Len(calls) :
                 i <= j => calls[i] <= calls[j]
          /\ pc = "fold" => LastCall = page_num
          /\ \A p \in DOMAIN pages_content :
                 (page_idx > 0 /\ p < page_num) => \E i \in 1..Len(calls) : calls[i] = p
          /\ Returned => \A p \in DOMAIN pages_content :
                             \E i \in 1..Len(calls) : calls[i] = p)
    /\ [][(pc = "loop" /\ pc' \in {"call", "seg_call"})
            => /\ current_invoice' = current_invoice
               /\ all_invoices' = all_invoices
               /\ heap' = heap
               /\ snap' = Snapshot]_vars

\* the second page is about to be sent with the first page's invoice open
C9_Witness ==
    /\ pc = "call"
    /\ page_num = 2
    /\ calls = <<1>>
    /\ current_invoice # 0

\* ---- C10
\* C10: no engine call follows another without a pacing delay in between.
C10_CallsArePaced == ~unpaced

\* ---- C11
UnsupportedType(f) == guess_type(f.ext) \in {"text/plain", "none"}

CannotBeOpened(f) == ~f.download \/ ~f.readable

\* C11: the activity of a blob of unsupported type, or of a document that
\* cannot be opened or analysed, fails instead of returning a result, and
\* process_invoice_with_gpt raises for a document it cannot open or analyse.
C11_UnusableDocumentFails ==
    \A i \in 1..Len(task) :
        (task[i].state # "pending"
            /\ (UnsupportedType(files[i]) \/ CannotBeOpened(files[i])))
        => /\ task[i].state = "failed"
           /\ ~files[i].readable => process_invoice_with_gpt(files[i], i).raised

\* ---- C12
\* what each blob's activity gives when it does not fail
SiblingResults ==
    [i \in 1..Len(files) |->
        LET r == process_file_activity(files[i], i)
        IN  Returns(IF r.raised THEN << >> ELSE r.value)]

\* C12: when the activity of one blob fails (and storage and notification
\* work), the invoices of the other blobs are aggregated, stored and counted
\* in the result of the orchestration.
C12_SiblingsUnaffected ==
    (orch_pc = "done" /\ outage = "none"
        /\ \E i \in 1..Len(files) : process_file_activity(files[i], i).raised)
    => /\ stored = Extend(SiblingResults)
       /\ orch_result.invoice_count = Len(Extend(SiblingResults))

\* ---- C20
HasState(part) ==
    \E i \in 1..Len(part) :
        /\ part[i] \in StateTokens
        /\ \A j \in {i - 1, i + 1} \cap (1..Len(part)) : ~IsWord(part[j])

FirstState(part) ==
    LET at == {i \in 1..Len(part) :
                  /\ part[i] \in StateTokens
                  /\ \A j \in {i - 1, i + 1} \cap (1..Len(part)) : ~IsWord(part[j])}
    IN  part[CHOOSE i \in at : \A j \in at : i <= j]

IsNoDigit(t) == t \notin DigitTokens

\* the location the claim gives for an address, with the given sentinel
ClaimedLocation(address, sentinel) ==
    LET parts == IF address.isStr THEN split(address.toks, << >>) ELSE << >>
        with == {i \in 2..Len(parts) : HasState(parts[i])}
    IN  IF with = {} THEN sentinel
        ELSE LET i == CHOOSE i \in with : \A j \in with : j <= i
             IN  strip_blank(SelectSeq(parts[i - 1], IsNoDigit))
                     \o <<",", " ", FirstState(parts[i])>>

ClaimedResolution(sentinel) ==
    IF ClaimedLocation(shipping_addr, sentinel) = sentinel
    THEN ClaimedLocation(sold_to_addr, sentinel)
    ELSE ClaimedLocation(shipping_addr, sentinel)

\* C20 as claimed: the last component after the first that holds a state
\* code gives "City, ST" with the component before it as the city, digits
\* removed; without one the result is "not available"; from_dict falls back
\* to the sold-to address only for that sentinel.
C20_NotAvailableSentinel ==
    /\ loc_pc = "extracted"
           => location = ClaimedLocation(shipping_addr, <<"not available">>)
    /\ loc_pc = "resolved" => location = ClaimedResolution(<<"not available">>)

\* C20 as amended: the same with the sentinel "N/A".
C20_LocationResolved ==
    /\ loc_pc = "extracted" => location = ClaimedLocation(shipping_addr, <<"N/A">>)
    /\ loc_pc = "resolved" => location = ClaimedResolution(<<"N/A">>)

\* "123 Main St, Springfield, IL 62704" as shipping address
C20_Witness ==
    /\ loc_pc = "resolved"
    /\ shipping_addr = Str(MainStreet)
    /\ location = <<"Springfield", ",", " ", "IL">>

\* ---- C13: when one item of an invoice cannot be converted (a non-numeric
\* value in a numeric field), only that item is skipped: the invoice is still
\* built with all its other items, and store_invoices_activity still stores
\* it, so a completed activity has stored every invoice it was given.
ConvertibleItems(items) ==
    SelectSeq([i \in 1..Len(items) |-> InvoiceItem_from_dict(AnnotateItem(items[i], i - 1))],
              LAMBDA r : ~r.raised)

C13_BadItemSkippedAlone ==
    (store.pc = "done" /\ store.result = "completed")
    => /\ Len(store.invoices) = Len(store.invoices_data)
       /\ store.stored_count = Len(store.invoices_data)
       /\ \A i \in 1..Len(store.invoices) :
            Len(store.invoices[i].Items) =
                Len(ConvertibleItems(store.invoices_data[i].items))

\* ---- C14: total_pages is the ceiling of item count / 10, for every item
\* count (0 items give 0 pages) and whatever page_number the input items
\* carry, in the object from_dict builds and in the dict to_dict returns.
C14_TotalPagesIsCeiling ==
    /\ model_pc = "built"
        => invoice.total_pages = PagesFor(Len(invoice.Items), ITEMS_PER_PAGE)
    /\ model_pc = "dumped"
        => dumped.pagination_info.total_pages = PagesFor(Len(dumped.Items), ITEMS_PER_PAGE)

\* ---- C15: the item at 0-based position i gets page_number = i div 10 + 1
\* and item_index = i mod 10, and get_items_for_page(p) returns exactly the
\* items annotated with page p, in order; every page but the last holds 10
\* items and the pages concatenated are the full item list.
ItemsOnPage(inv, p) == SelectSeq(inv.Items, LAMBDA it : it.page_number = p)

RECURSIVE ConcatPages(_, _)
ConcatPages(inv, p) ==
    IF p = 0 THEN << >> ELSE ConcatPages(inv, p - 1) \o get_items_for_page(inv, p)

C15_ItemsAnnotatedAndSliced ==
    model_pc \in {"built", "dumped"}
    => /\ \A i \in 1..Len(invoice.Items) :
            /\ invoice.Items[i].page_number = ((i - 1) \div 10) + 1
            /\ invoice.Items[i].item_index = (i - 1) % 10
       /\ \A p \in 1..PagesFor(Len(invoice.Items), 10) :
            /\ get_items_for_page(invoice, p) = ItemsOnPage(invoice, p)
            /\ Len(get_items_for_page(invoice, p)) =
                IF p * 10 <= Len(invoice.Items) THEN 10 ELSE Len(invoice.Items) - (p - 1) * 10
       /\ ConcatPages(invoice, PagesFor(Len(invoice.Items), 10)) = invoice.Items

C15_Witness ==
    /\ model_pc = "built"
    /\ Len(invoice.Items) = 23
    /\ Len(get_items_for_page(invoice, 1)) = 10
    /\ Len(get_items_for_page(invoice, 2)) = 10
    /\ Len(get_items_for_page(invoice, 3)) = 3
    /\ invoice.Items[23].page_number = 3
    /\ invoice.Items[23].item_index = 2

\* ---- C17: every item of a built invoice has Total_Units_Ordered =
\* Quantity_In_a_Case * Measurement_Of_Each_Item * Quantity_Shipped, with
\* Quantity_Shipped taken as 1 when the engine left it out, whatever total
\* the engine reported.
C17_TotalUnitsComputed ==
    model_pc \in {"built", "dumped"}
    => \A i \in 1..Len(invoice.Items) :
        LET it == invoice.Items[i]
            shipped == IF data.items[i].quantity_shipped.t = "absent" THEN 1
                       ELSE it.Quantity_Shipped
        IN  it.Total_Units_Ordered =
                it.Quantity_In_a_Case * it.Measurement_Of_Each_Item * shipped

\* ---- C18: fields the engine left out take the documented defaults:
\* quantity fields 1.0, Product Category "OTHER", Split Price "N/A",
\* Currency "USD".
C18_DocumentedDefaults ==
    model_pc \in {"built", "dumped"}
    => \A i \in 1..Len(invoice.Items) :
        /\ data.items[i].quantity_in_a_case.t = "absent"
            => invoice.Items[i].Quantity_In_a_Case = 1
        /\ data.items[i].measurement.t = "absent"
            => invoice.Items[i].Measurement_Of_Each_Item = 1
        /\ data.items[i].quantity_shipped.t = "absent"
            => invoice.Items[i].Quantity_Shipped = 1
        /\ data.items[i].product_category.t = "absent"
            => invoice.Items[i].Product_Category = "OTHER"
        /\ data.items[i].split_price.t = "absent"
            => invoice.Items[i].Split_Price = "N/A"
        /\ data.items[i].currency.t = "absent"
            => invoice.Items[i].Currency = "USD"

\* ---- C16: for storage the items of each invoice go out in batches of at
\* most 10 items, in increasing page order, each batch carrying its page
\* index and that invoice's own total-page count.
RECURSIVE ItemCount(_)
ItemCount(invs) == IF invs = << >> THEN 0 ELSE Len(Head(invs).Items) + ItemCount(Tail(invs))

C16_ItemBatches ==
    \A k \in 1..Len(store.submitted) :
        LET batch == store.submitted[k]
        IN  /\ ItemCount(batch) <= ITEMS_PER_PAGE
            /\ \A j \in 1..Len(batch) :
                /\ batch[j].page = k
                /\ batch[j].total_pages = PagesFor(Len(batch[j].Items), ITEMS_PER_PAGE)

\* ---- C19: handle_large_page cuts the page text only at table-start
\* markers: every segment sent holds at most one table and never part of a
\* table, every line of the page is in exactly one segment, and the segments
\* are sent and folded in their order in the page, the last one included.
CountLines(seq, P(_)) == Len(SelectSeq(seq, P))

C19_SegmentsAreWholeTables ==
    /\ \A i \in 1..Len(large_page.sent) :
        LET s == large_page.sent[i]
        IN  /\ CountLines(s, LAMBDA l : l.k = "table_start") <= 1
            /\ i > 1 => (s # << >> /\ Head(s).k = "table_start")
            /\ \A t \in 1..MaxPageTables + 1 :
                CountLines(s, LAMBDA l : l.t = t)
                    \in {0, CountLines(large_page.page_text, LAMBDA l : l.t = t)}
    /\ join(large_page.sent) = SubSeq(large_page.page_text, 1, Len(join(large_page.sent)))
    /\ \A j \in 1..Len(large_page.folded) :
        /\ large_page.folded[j] <= Len(large_page.sent)
        /\ j > 1 => large_page.folded[j - 1] < large_page.folded[j]
    /\ large_page.pc = "done"
        => /\ join(large_page.sent) = large_page.page_text
           /\ Len(large_page.sent) = CountLines(large_page.page_text, LAMBDA l : l.k = "table_start") + 1

C19_Witness ==
    /\ large_page.pc = "done"
    /\ Len(large_page.sent) = 3
    /\ large_page.folded = <<1, 2, 3>>
    /\ CountLines(large_page.sent[3], LAMBDA l : l.k = "row") = 1
    /\ large_page.sent[3][Len(large_page.sent[3])].k = "page_end"

\* ---- C23: the orchestrator's steps are ordered process-all-files, store,
\* notify: store_invoices_activity is called only after every file activity
\* has completed and only with at least one invoice, send_email_activity only
\* after the store has completed, and when the files held no invoice neither
\* is called and the result is "completed" with invoice_count 0.
AllCompleted == task # << >> /\ \A i \in 1..Len(task) : task[i].state = "completed"

C23_StepsInOrder ==
    /\ (orch_pc \in {"store", "notify"} \/ stored # << >> \/ notified \/ outage # "none")
        => /\ AllCompleted
           /\ aggregated = Extend(task)
           /\ aggregated # << >>
    /\ (orch_pc = "notify" \/ notified \/ outage = "notify")
        => stored = aggregated
    /\ orch_pc = "store" => (stored = << >> /\ ~notified)
    /\ (orch_pc = "done" /\ AllCompleted /\ Extend(task) = << >>)
        => /\ orch_result = [status |-> "completed", invoice_count |-> 0]
           /\ stored = << >>
           /\ ~notified
           /\ outage = "none"

C23_Witness ==
    /\ orch_pc = "done"
    /\ Len(task) = 2
    /\ AllCompleted
    /\ Len(stored) = 2
    /\ notified
    /\ orch_result = [status |-> "completed", invoice_count |-> 2]

\* ---- C24: for a downloaded blob of each supported type (image, PDF, Excel
\* spreadsheet) process_file_activity returns the invoices the processor
\* produced, an empty list when there are none; the Excel branch behaves like
\* the image and PDF branches.
SupportedType(f) == f.ext \in {".png", ".pdf", ".xlsx"}

C24_SupportedTypesReturnInvoices ==
    \A i \in 1..Len(task) :
        (task[i].state # "pending" /\ files[i].download /\ SupportedType(files[i]))
        => /\ task[i].state = "completed"
           /\ task[i].value = process_invoice_with_gpt(files[i], i).value

\* ---- C25: when a fragment is merged into the open invoice with the same
\* Invoice Number, the open invoice's Total becomes the fragment's Total
\* exactly when the fragment gives a non-zero Total, else it is unchanged; in
\* both cases the other header fields of the open invoice are unchanged.
MergeStep ==
    /\ FoldStep
    /\ pc' # "except"
    /\ FoldedElem.kind = "dict"
    /\ local_invoice # 0
    /\ FoldedElem.num = heap[local_invoice].num

C25_TotalOverwrittenWhenGiven ==
    [][MergeStep =>
        /\ heap'[local_invoice].total =
              IF FoldedElem.total # 0 THEN FoldedElem.total ELSE heap[local_invoice].total
        /\ heap'[local_invoice].num = heap[local_invoice].num
        /\ heap'[local_invoice].supplier = heap[local_invoice].supplier
        /\ heap'[local_invoice].kind = heap[local_invoice].kind]_vars

C25_Witness ==
    /\ Len(folded) = 2
    /\ folded[1].num = "A" /\ folded[2].num = "A"
    /\ folded[1].total = 0 /\ folded[2].total = 7
    /\ folded[2].supplier # folded[1].supplier
    /\ Len(heap) = 1
    /\ heap[1].total = 7
    /\ heap[1].supplier = folded[1].supplier

\* ---- C26: invoices are merged by invoice identity: no two invoices of the
\* list returned for a document have the same Invoice Number, for every
\* order in which the fragments arrive (A, B, A included).
C26_OneInvoicePerNumber ==
    Returned => \A i, j \in 1..Len(returned) :
                    (i # j /\ returned[i].kind = "dict" /\ returned[j].kind = "dict"
                        /\ returned[i].num # "")
                        => returned[i].num # returned[j].num

\* ---- C27: to_dict followed by from_dict is a round trip on everything but
\* the random PO_NUMBER: the invoice read back has the same header fields,
\* the same items in the same order and the same total_items.
C27_RoundTrip ==
    [][(model_pc = "dumped" /\ model_pc' # "dumped")
        => /\ model_pc' = "restored"
           /\ invoice'.Invoice_Number = invoice.Invoice_Number
           /\ invoice'.Shipping_Address = invoice.Shipping_Address
           /\ invoice'.Sold_to_Address = invoice.Sold_to_Address
           /\ invoice'.Total = invoice.Total
           /\ invoice'.location = invoice.location
           /\ invoice'.Items = invoice.Items
           /\ invoice'.total_items = invoice.total_items]_vars

\* ---- C21: a sheet of n data rows is cut into ceil(n/10) pages numbered
\* from 1, each holding at most 10 consecutive rows under the header row;
\* the row ranges are contiguous, do not overlap and cover rows 1..n exactly
\* once, and a sheet with no data rows gives no page.
RECURSIVE DataRows(_, _)
DataRows(pages, k) ==
    IF k = 0 THEN << >> ELSE DataRows(pages, k - 1) \o Tail(pages[k].table_rows)

C21_SheetChunks ==
    excel.pc = "done"
    => LET pages == excel.pages_content
           n == excel.total_rows
           count == IF n % 10 = 0 THEN n \div 10 ELSE (n \div 10) + 1
       IN  /\ DOMAIN pages = 1..count
           /\ n = 0 => pages = << >>
           /\ \A p \in 1..count :
                /\ Head(pages[p].table_rows) = 0
                /\ Len(Tail(pages[p].table_rows)) \in 1..10
                /\ p < count => Len(Tail(pages[p].table_rows)) = 10
                /\ \A i \in 1..Len(Tail(pages[p].table_rows)) :
                        Tail(pages[p].table_rows)[i] = pages[p].start_row + i - 1
                /\ pages[p].end_row = pages[p].start_row + Len(Tail(pages[p].table_rows)) - 1
                /\ pages[p].start_row = IF p = 1 THEN 1 ELSE pages[p - 1].end_row + 1
           /\ DataRows(pages, count) = [i \in 1..n |-> i]

C21_Witness ==
    /\ excel.pc = "done"
    /\ excel.total_rows = 23
    /\ DOMAIN excel.pages_content = 1..3
    /\ excel.pages_content[3].table_rows = <<0, 21, 22, 23>>
    /\ excel.pages_content[2].start_row = 11

\* ---- C22: two documents processed by interleaved runs share no merge
\* state: for every interleaving of their page steps each document's
\* returned list equals the list it returns when processed alone.
RECURSIVE Alone(_, _, _, _)
Alone(pages, cur, hp, al) ==
    IF pages = << >>
    THEN [i \in 1..Len(IF cur # 0 THEN Append(al, cur) ELSE al) |->
            hp[(IF cur # 0 THEN Append(al, cur) ELSE al)[i]]]
    ELSE LET out == merge_or_add_invoice(Head(pages), cur, hp, al)
         IN  IF out.raised THEN Alone(Tail(pages), cur, hp, al)
             ELSE Alone(Tail(pages), out.current_invoice, out.heap, out.all_invoices)

C22_RunsAreIndependent ==
    \A k \in 1..2 :
        runs.run[k].pc = "done"
            => runs.run[k].returned = Alone(runs.run[k].pages, 0, << >>, << >>)

C22_Witness ==
    /\ runs.run[1].pc = "done" /\ runs.run[2].pc = "done"
    /\ Len(runs.run[1].pages) = 2 /\ Len(runs.run[2].pages) = 2
    /\ runs.run[1].pages[1].num = "A" /\ runs.run[1].pages[2].num = "A"
    /\ runs.run[2].pages[1].num = "A" /\ runs.run[2].pages[2].num = "B"
    /\ Len(runs.heap) = 3
    /\ runs.heap[1].supplier = 2 /\ runs.heap[2].supplier = 1 /\ runs.heap[3].supplier = 2
    /\ Len(runs.run[1].returned) = 1
    /\ Len(runs.run[1].returned[1].items) = 2


====
